---- MODULE Spec2Model ----
(***************************************************************************)
(* Model of the Apple Notes -> MDX exporter (exporter/src/*.py).           *)
(*                                                                         *)
(* Python strings are modelled as sequences of one-character strings, so   *)
(* that slicing, stripping, searching and the regular expressions of the   *)
(* source are computed character by character.  A few code points outside  *)
(* ASCII are written as named tokens ("e-acute", "emoji", "nbsp"), and the  *)
(* backquote as "backquote".                                               *)
(***************************************************************************)
EXTENDS Integers, Sequences, FiniteSets, TLC

\* ------------------------------------------------------------------------
\* Strings
\* ------------------------------------------------------------------------

Lowers == <<"a","b","c","d","e","f","g","h","i","j","k","l","m","n","o","p","q","r","s","t","u","v","w","x","y","z">>
Uppers == <<"A","B","C","D","E","F","G","H","I","J","K","L","M","N","O","P","Q","R","S","T","U","V","W","X","Y","Z">>
DigitChars == <<"0","1","2","3","4","5","6","7","8","9">>

Range(s) == {s[i] : i \in 1..Len(s)}
Min(S) == CHOOSE x \in S : \A y \in S : x <= y
Max(S) == CHOOSE x \in S : \A y \in S : x >= y

\* A local variable x holding the value v, in scope in e, is written
\* (CHOOSE r_ \in {e : x \in {v}} : TRUE): v is computed once.

\* Python's None, kept apart from every string (no string holds the token).
None == <<"<None>">>

LowerSet == Range(Lowers)
UpperSet == Range(Uppers)
DigitSet == Range(DigitChars)
\* str.isspace / \s : ASCII white space and U+00A0
SpaceSet == {" ", "\t", "\n", "\r", "nbsp"}
\* code points outside ASCII used by the model: U+00E9, an emoji, U+00A0
NonAscii == {"e-acute", "emoji", "nbsp"}
\* \w of Python 3 str patterns: Unicode letters, digits and the underscore
WordSet == LowerSet \cup UpperSet \cup DigitSet \cup {"_", "e-acute"}

\* str.lower(), one character
LowerChar(c) ==
    IF c \in UpperSet THEN Lowers[CHOOSE i \in 1..26 : Uppers[i] = c] ELSE c

\* str.lower()
Lower(s) == [i \in 1..Len(s) |-> LowerChar(s[i])]

\* s.lstrip(cs), s.rstrip(cs), s.strip(cs) for a set of characters cs
LStripSet(s, cs) ==
    LET keep == {i \in 1..Len(s) : s[i] \notin cs}
    IN  IF keep = {} THEN <<>> ELSE SubSeq(s, Min(keep), Len(s))

RStripSet(s, cs) ==
    LET keep == {i \in 1..Len(s) : s[i] \notin cs}
    IN  IF keep = {} THEN <<>> ELSE SubSeq(s, 1, Max(keep))

StripSet(s, cs) == RStripSet(LStripSet(s, cs), cs)

\* s.strip(), s.rstrip()
Strip(s) == StripSet(s, SpaceSet)
RStrip(s) == RStripSet(s, SpaceSet)

\* s[:n] for n >= 0
Prefix(s, n) == SubSeq(s, 1, IF n < Len(s) THEN n ELSE Len(s))

\* s.startswith(p)
StartsWith(s, p) == Len(p) <= Len(s) /\ SubSeq(s, 1, Len(p)) = p

\* the 1-based positions at which p occurs in s
Occurrences(s, p) ==
    {i \in 1..(Len(s) - Len(p) + 1) : SubSeq(s, i, i + Len(p) - 1) = p}

\* p in s
Contains(s, p) == Occurrences(s, p) # {}

\* s.split(c) for a one-character separator c
RECURSIVE SplitOn(_, _)
SplitOn(s, c) ==
    (CHOOSE r_ \in {
    (CHOOSE r_ \in {
        IF at = {} THEN <<text>>
        ELSE <<SubSeq(text, 1, Min(at) - 1)>>
                 \o SplitOn(SubSeq(text, Min(at) + 1, Len(text)), c) : at \in {{i \in 1..Len(text) : text[i] = c}}} : TRUE) : text \in {s}} : TRUE)

\* sep.join(parts)
RECURSIVE JoinWith(_, _)
JoinWith(parts, sep) ==
    (CHOOSE r_ \in {
        IF q = <<>> THEN <<>>
        ELSE IF Len(q) = 1 THEN q[1]
        ELSE q[1] \o sep \o JoinWith(Tail(q), sep) : q \in {parts}} : TRUE)

\* s.replace(p, r) for a non-empty p
RECURSIVE Replace(_, _, _)
Replace(s, p, r) ==
    (CHOOSE r_ \in {
    (CHOOSE r_ \in {
        IF at = {} THEN text
        ELSE SubSeq(text, 1, Min(at) - 1) \o r
                 \o Replace(SubSeq(text, Min(at) + Len(p), Len(text)), p, r) : at \in {Occurrences(text, p)}} : TRUE) : text \in {s}} : TRUE)

\* re.sub('[cs]+', rep, s): every maximal run of characters of cs becomes rep
RECURSIVE SubRuns(_, _, _)
SubRuns(s, cs, rep) ==
    (CHOOSE r_ \in {
    (CHOOSE r_ \in {
        IF at = {} THEN text
        ELSE SubSeq(text, 1, Min(at) - 1) \o rep
                 \o SubRuns(LStripSet(SubSeq(text, Min(at), Len(text)), cs), cs, rep) : at \in {{i \in 1..Len(text) : text[i] \in cs}}} : TRUE) : text \in {s}} : TRUE)

\* the characters of s that are in cs, in order
Keep(s, cs) == SelectSeq(s, LAMBDA c : c \in cs)

\* str(n) for n >= 0
RECURSIVE Decimal(_)
Decimal(n) ==
    IF n < 10 THEN <<DigitChars[n + 1]>>
    ELSE Decimal(n \div 10) \o <<DigitChars[(n % 10) + 1]>>

\* f"{n:0Wd}"
RECURSIVE ZeroPad(_, _)
ZeroPad(s, w) == IF Len(s) >= w THEN s ELSE ZeroPad(<<"0">> \o s, w)

\* ------------------------------------------------------------------------
\* Regular expressions (module re)
\*
\* A pattern is a sequence of elements: a literal string, a line anchor, or a
\* repetition {min,max} of one character class (max = -1: unbounded), greedy
\* or lazy; g is the number of the capturing group the element lies in (0:
\* none).  Matching backtracks as re does: a repetition takes the longest
\* (greedy) or shortest (lazy) length after which the rest still matches.
\* ------------------------------------------------------------------------

Lit(s) ==
    [t |-> "lit", s |-> s, neg |-> FALSE, cs |-> {}, min |-> 0, max |-> 0,
     lazy |-> FALSE, g |-> 0]

\* ^ under re.MULTILINE
Bol ==
    [t |-> "bol", s |-> <<>>, neg |-> FALSE, cs |-> {}, min |-> 0, max |-> 0,
     lazy |-> FALSE, g |-> 0]

\* [cs]{min,max}
In(cs, min, max) ==
    [t |-> "run", s |-> <<>>, neg |-> FALSE, cs |-> cs, min |-> min, max |-> max,
     lazy |-> FALSE, g |-> 0]

\* [^cs]{min,max}
NotIn(cs, min, max) ==
    [t |-> "run", s |-> <<>>, neg |-> TRUE, cs |-> cs, min |-> min, max |-> max,
     lazy |-> FALSE, g |-> 0]

\* ^ without re.MULTILINE
Bos == [Bol EXCEPT !.t = "bos"]

Lazy(e) == [e EXCEPT !.lazy = TRUE]
Group(e, g) == [e EXCEPT !.g = g]

NoMatch == <<-1>>

\* does the character c belong to the class of the repetition e
InClass(e, c) == IF e.neg THEN c \notin e.cs ELSE c \in e.cs

\* the longest repetition of e that the text allows at position i
MaxRun(s, i, e) ==
    LET stop == {j \in i..Len(s) : ~InClass(e, s[j])}
        run == IF stop = {} THEN Len(s) - i + 1 ELSE Min(stop) - i
    IN  IF e.max >= 0 /\ run > e.max THEN e.max ELSE run

\* the lengths matched by the elements k.. of pat at position i, or NoMatch
RECURSIVE MatchLens(_, _, _, _)
MatchLens(s, i, pat, k) ==
    IF k > Len(pat) THEN <<>>
    ELSE LET e == pat[k]
         IN  CASE e.t \in {"lit", "liti"} ->
                    IF /\ i + Len(e.s) - 1 <= Len(s)
                       /\ IF e.t = "lit" THEN SubSeq(s, i, i + Len(e.s) - 1) = e.s
                          ELSE Lower(SubSeq(s, i, i + Len(e.s) - 1)) = Lower(e.s)
                    THEN LET r == MatchLens(s, i + Len(e.s), pat, k + 1)
                         IN  IF r = NoMatch THEN NoMatch ELSE <<Len(e.s)>> \o r
                    ELSE NoMatch
               [] e.t \in {"bol", "bos"} ->
                    IF i = 1 \/ (e.t = "bol" /\ s[i - 1] = "\n")
                    THEN LET r == MatchLens(s, i, pat, k + 1)
                         IN  IF r = NoMatch THEN NoMatch ELSE <<0>> \o r
                    ELSE NoMatch
               [] OTHER ->
                    (CHOOSE r_ \in {
                        LET ok == {n \in e.min..MaxRun(s, i, e) : <<n>> \o NoMatch \notin tries}
                        IN  IF ok = {} THEN NoMatch
                            ELSE LET n == IF e.lazy THEN Min(ok) ELSE Max(ok)
                                 IN  CHOOSE t \in tries : t[1] = n : tries \in {{<<n>> \o MatchLens(s, i + n, pat, k + 1) : n \in e.min..MaxRun(s, i, e)}}} : TRUE)

RECURSIVE SumSeq(_)
SumSeq(q) == IF q = <<>> THEN 0 ELSE Head(q) + SumSeq(Tail(q))

\* m.group(g) of the match with lengths lens of pat at position i
RECURSIVE GroupText(_, _, _, _, _, _)
GroupText(s, i, pat, lens, k, g) ==
    IF k > Len(pat) THEN <<>>
    ELSE (IF pat[k].g = g THEN SubSeq(s, i, i + lens[k] - 1) ELSE <<>>)
             \o GroupText(s, i + lens[k], pat, lens, k + 1, g)

\* the replacement template repl (pieces [g, s]: group g, or the literal s
\* when g = 0) expanded for one match
RECURSIVE Expand(_, _, _, _, _)
Expand(repl, s, i, pat, lens) ==
    IF repl = <<>> THEN <<>>
    ELSE (IF Head(repl).g = 0 THEN Head(repl).s
          ELSE GroupText(s, i, pat, lens, 1, Head(repl).g))
             \o Expand(Tail(repl), s, i, pat, lens)

Text(s) == [g |-> 0, s |-> s]
Ref(g) == [g |-> g, s |-> <<>>]

\* the positions from i on at which pat matches
MatchesFrom(s, i, pat) ==
    {j \in i..Len(s) : LET lens == MatchLens(s, j, pat, 1)
                       IN  lens # NoMatch /\ SumSeq(lens) > 0}

\* re.sub(pat, repl, s) from position i on: leftmost matches, not overlapping
\* (no pattern of the source matches the empty string)
RECURSIVE SubFrom(_, _, _, _)
SubFrom(s, i, pat, repl) ==
    (CHOOSE r_ \in {
        IF at = {} THEN SubSeq(s, i, Len(s))
        ELSE (CHOOSE r_ \in {
             (CHOOSE r_ \in {
                 SubSeq(s, i, j - 1) \o Expand(repl, s, j, pat, lens)
                     \o SubFrom(s, j + SumSeq(lens), pat, repl) : lens \in {MatchLens(s, j, pat, 1)}} : TRUE) : j \in {Min(at)}} : TRUE) : at \in {MatchesFrom(s, i, pat)}} : TRUE)

ReSub(pat, repl, s) == (CHOOSE r_ \in {SubFrom(text, 1, pat, repl) : text \in {s}} : TRUE)

\* re.findall(pat, s) for a pattern with one group, from position i on
RECURSIVE FindAllFrom(_, _, _)
FindAllFrom(s, i, pat) ==
    (CHOOSE r_ \in {
        IF at = {} THEN <<>>
        ELSE (CHOOSE r_ \in {
             (CHOOSE r_ \in {
                 <<GroupText(s, j, pat, lens, 1, 1)>>
                     \o FindAllFrom(s, j + SumSeq(lens), pat) : lens \in {MatchLens(s, j, pat, 1)}} : TRUE) : j \in {Min(at)}} : TRUE) : at \in {MatchesFrom(s, i, pat)}} : TRUE)

\* re.search(pat, s) is not None
ReSearch(pat, s) == MatchesFrom(s, 1, pat) # {}

\* re.split('[cs]+', s)
RECURSIVE SplitRuns(_, _)
SplitRuns(s, cs) ==
    (CHOOSE r_ \in {
    (CHOOSE r_ \in {
        IF at = {} THEN <<text>>
        ELSE <<SubSeq(text, 1, Min(at) - 1)>>
                 \o SplitRuns(LStripSet(SubSeq(text, Min(at), Len(text)), cs), cs) : at \in {{i \in 1..Len(text) : text[i] \in cs}}} : TRUE) : text \in {s}} : TRUE)

\* ------------------------------------------------------------------------
\* filename_utils.py
\* ------------------------------------------------------------------------

Untitled == <<"u","n","t","i","t","l","e","d">>
MdxExt == <<".","m","d","x">>

\* unicodedata.normalize('NFKD', text).encode('ascii', 'ignore').decode('ascii')
\* U+00E9 decomposes to "e" and a combining accent, which is dropped; U+00A0
\* decomposes to a space; the emoji has no ASCII part.
NfkdAscii(s) ==
    LET ascii == SelectSeq(s, LAMBDA c : c # "emoji")
    IN  [i \in 1..Len(ascii) |->
            CASE ascii[i] = "e-acute" -> "e"
              [] ascii[i] = "nbsp" -> " "
              [] OTHER -> ascii[i]]

\* the class of the first re.sub of to_kebab_case
KebabSeparators ==
    {"_", " ", "\t", "\n", "\r", ".", "/", "\\", ":", ";", ",", "&", "+", "(", ")",
     "[", "]", "{", "}", "!", "@", "#", "$", "%", "^", "*", "=", "|", "\"", "'",
     "backquote", "~", "<", ">", "?"}

SlugChars == LowerSet \cup DigitSet \cup {"-"}

\* text.rfind('-'), 0-based, -1 when absent
RFindHyphen(s) ==
    LET at == {i \in 1..Len(s) : s[i] = "-"}
    IN  IF at = {} THEN -1 ELSE Max(at) - 1

\* to_kebab_case without the rstrip('-') after the truncation (line 70)
to_kebab_case_cut_only(text, max_length) ==
    IF text = None \/ text = <<>> \/ Strip(text) = <<>> THEN Untitled
    ELSE LET trimmed == StripSet(SubRuns(Keep(SubRuns(Lower(NfkdAscii(text)), KebabSeparators, <<"-">>),
                                              SlugChars), {"-"}, <<"-">>), {"-"})
             slug == IF trimmed = <<>> THEN Untitled ELSE trimmed
         IN  IF Len(slug) > max_length
             THEN (IF RFindHyphen(Prefix(slug, max_length)) > (max_length * 2) \div 3
                   THEN Prefix(slug, RFindHyphen(Prefix(slug, max_length)))
                   ELSE Prefix(slug, max_length))
             ELSE slug

to_kebab_case(text, max_length) ==
    IF text = None \/ text = <<>> \/ Strip(text) = <<>> THEN Untitled
    ELSE LET ascii == NfkdAscii(text)
             lowered == Lower(ascii)
             hyphenated == SubRuns(lowered, KebabSeparators, <<"-">>)
             cleaned == Keep(hyphenated, SlugChars)
             collapsed == SubRuns(cleaned, {"-"}, <<"-">>)
             trimmed == StripSet(collapsed, {"-"})
             slug == IF trimmed = <<>> THEN Untitled ELSE trimmed
         IN  IF Len(slug) > max_length
             THEN LET truncated == Prefix(slug, max_length)
                      last_hyphen == RFindHyphen(truncated)
                      cut == IF last_hyphen > (max_length * 2) \div 3
                             THEN Prefix(truncated, last_hyphen)
                             ELSE truncated
                  IN  RStripSet(cut, {"-"})
             ELSE slug

MaxFilenameLength == 50

generate_markdown_filename(title) ==
    to_kebab_case(title, MaxFilenameLength) \o MdxExt

generate_image_filename(note_name, index, extension, max_length) ==
    LET index_part == <<"-">> \o ZeroPad(Decimal(index), 3)
        extension_part == <<".">> \o extension
        room == max_length - Len(index_part) - Len(extension_part)
        available_length == IF room < 5 THEN 5 ELSE room
    IN  to_kebab_case(note_name, available_length) \o index_part \o extension_part

\* ------------------------------------------------------------------------
\* frontmatter_generator.py
\*
\* A frontmatter dict is a record; its string values are character sequences,
\* its tags a sequence of them.  A JSON null in the classifier's answer is
\* None.  An operation that can raise returns [exc, val]: exc tells that an
\* exception left it.
\* ------------------------------------------------------------------------

DefaultAuthor == <<"S","a","i"," ","N","i","m","m","a","g","a","d","d","a">>
UntitledNote == <<"U","n","t","i","t","l","e","d"," ","N","o","t","e">>
PersonalCategory == <<"P","e","r","s","o","n","a","l">>
NotesTag == <<"n","o","t","e","s">>
NotesFolder == <<"N","o","t","e","s">>
Ellipsis == <<".", ".", ".">>

Returned(v) == [exc |-> FALSE, val |-> v]
Raised == [exc |-> TRUE, val |-> [title |-> None]]

\* {**a, **b}
Merge(a, b) ==
    [f \in DOMAIN a \cup DOMAIN b |-> IF f \in DOMAIN b THEN b[f] ELSE a[f]]

\* str(x) of a string or of None
Str(x) == IF x = None THEN <<"N","o","n","e">> ELSE x

\* s.rsplit('-', 1)[0]
RSplitHyphenFirst(s) ==
    LET at == {i \in 1..Len(s) : s[i] = "-"}
    IN  IF at = {} THEN s ELSE SubSeq(s, 1, Max(at) - 1)

\* title.lower() raises AttributeError on None
_generate_slug(title) ==
    IF title = None THEN Raised
    ELSE LET lowered == Lower(title)
             kept == Keep(lowered, WordSet \cup SpaceSet \cup {"-"})
             hyphenated == SubRuns(kept, SpaceSet \cup {"-"}, <<"-">>)
             trimmed == StripSet(hyphenated, {"-"})
             slug == IF Len(trimmed) > 50
                     THEN RSplitHyphenFirst(Prefix(trimmed, 50))
                     ELSE trimmed
         IN  Returned(IF slug = <<>> THEN Untitled ELSE slug)

category_map ==
    <<<<<<"w","o","r","k">>, <<"B","u","s","i","n","e","s","s">>>>,
      <<<<"p","e","r","s","o","n","a","l">>, <<"P","e","r","s","o","n","a","l">>>>,
      <<<<"r","e","c","i","p","e","s">>, <<"F","o","o","d">>>>,
      <<<<"t","r","a","v","e","l">>, <<"T","r","a","v","e","l">>>>,
      <<<<"t","e","c","h">>, <<"T","e","c","h","n","o","l","o","g","y">>>>,
      <<<<"h","e","a","l","t","h">>, <<"H","e","a","l","t","h">>>>,
      <<<<"f","i","t","n","e","s","s">>, <<"H","e","a","l","t","h">>>>,
      <<<<"e","d","u","c","a","t","i","o","n">>, <<"E","d","u","c","a","t","i","o","n">>>>,
      <<<<"l","e","a","r","n","i","n","g">>, <<"E","d","u","c","a","t","i","o","n">>>>,
      <<<<"p","r","o","j","e","c","t","s">>, <<"P","r","o","j","e","c","t","s">>>>,
      <<<<"i","d","e","a","s">>, <<"I","d","e","a","s">>>>,
      <<<<"j","o","u","r","n","a","l">>, <<"P","e","r","s","o","n","a","l">>>>,
      <<<<"d","i","a","r","y">>, <<"P","e","r","s","o","n","a","l">>>>,
      <<<<"m","e","e","t","i","n","g","s">>, <<"B","u","s","i","n","e","s","s">>>>,
      <<<<"r","e","s","e","a","r","c","h">>, <<"R","e","s","e","a","r","c","h">>>>>>

RECURSIVE FirstCategory(_, _)
FirstCategory(folder_lower, k) ==
    IF k > Len(category_map) THEN PersonalCategory
    ELSE IF Contains(folder_lower, category_map[k][1]) THEN category_map[k][2]
    ELSE FirstCategory(folder_lower, k + 1)

_folder_to_category(folder) == FirstCategory(Lower(folder), 1)

keywords ==
    <<<<<<"r","e","c","i","p","e">>, <<<<"c","o","o","k","i","n","g">>, <<"f","o","o","d">>>>>>,
      <<<<"m","e","e","t","i","n","g">>, <<<<"b","u","s","i","n","e","s","s">>, <<"w","o","r","k">>>>>>,
      <<<<"w","o","r","k","o","u","t">>, <<<<"f","i","t","n","e","s","s">>, <<"h","e","a","l","t","h">>>>>>,
      <<<<"t","r","a","v","e","l">>, <<<<"t","r","a","v","e","l">>, <<"v","a","c","a","t","i","o","n">>>>>>,
      <<<<"c","o","d","e">>, <<<<"p","r","o","g","r","a","m","m","i","n","g">>, <<"d","e","v","e","l","o","p","m","e","n","t">>>>>>,
      <<<<"d","e","s","i","g","n">>, <<<<"d","e","s","i","g","n">>, <<"u","i">>>>>>,
      <<<<"b","o","o","k">>, <<<<"r","e","a","d","i","n","g">>, <<"b","o","o","k","s">>>>>>,
      <<<<"m","o","v","i","e">>, <<<<"m","o","v","i","e","s">>, <<"e","n","t","e","r","t","a","i","n","m","e","n","t">>>>>>,
      <<<<"m","u","s","i","c">>, <<<<"m","u","s","i","c">>, <<"a","u","d","i","o">>>>>>,
      <<<<"p","h","o","t","o">>, <<<<"p","h","o","t","o","g","r","a","p","h","y">>, <<"i","m","a","g","e","s">>>>>>,
      <<<<"v","i","d","e","o">>, <<<<"v","i","d","e","o">>, <<"m","e","d","i","a">>>>>>,
      <<<<"p","r","o","j","e","c","t">>, <<<<"p","r","o","j","e","c","t","s">>, <<"w","o","r","k">>>>>>,
      <<<<"i","d","e","a">>, <<<<"i","d","e","a","s">>, <<"b","r","a","i","n","s","t","o","r","m","i","n","g">>>>>>,
      <<<<"t","o","d","o">>, <<<<"t","a","s","k","s">>, <<"p","r","o","d","u","c","t","i","v","i","t","y">>>>>>,
      <<<<"l","i","s","t">>, <<<<"l","i","s","t","s">>, <<"o","r","g","a","n","i","z","a","t","i","o","n">>>>>>>>

\* list(dict.fromkeys(tags))
RECURSIVE Unique(_)
Unique(q) ==
    IF q = <<>> THEN <<>>
    ELSE (CHOOSE r_ \in {
             IF q[Len(q)] \in Range(front) THEN front ELSE Append(front, q[Len(q)]) : front \in {Unique(SubSeq(q, 1, Len(q) - 1))}} : TRUE)

RECURSIVE KeywordTags(_, _, _)
KeywordTags(content_lower, title_lower, k) ==
    IF k > Len(keywords) THEN <<>>
    ELSE (IF Contains(content_lower, keywords[k][1])
             \/ Contains(title_lower, keywords[k][1])
          THEN keywords[k][2] ELSE <<>>)
             \o KeywordTags(content_lower, title_lower, k + 1)

_extract_basic_tags(content, title) ==
    (CHOOSE r_ \in {
    (CHOOSE r_ \in {
    (CHOOSE r_ \in {
        IF unique_tags = <<>> THEN <<NotesTag>> ELSE unique_tags : unique_tags \in {Prefix(Unique(tags), 8)}} : TRUE) : tags \in {[i \in 1..Len(hashtags) |-> Lower(hashtags[i])] \o KeywordTags(Lower(content), Lower(title), 1)}} : TRUE) : hashtags \in {Prefix(FindAllFrom(content, 1, <<Lit(<<"#">>), Group(In(WordSet, 1, -1), 1)>>), 5)}} : TRUE)

\* the first sentence of more than 20 characters, stripped, or None
RECURSIVE FirstSentence(_)
FirstSentence(sentences) ==
    IF sentences = <<>> THEN None
    ELSE IF Len(Strip(Head(sentences))) > 20 THEN Strip(Head(sentences))
    ELSE FirstSentence(Tail(sentences))

_generate_excerpt(content, title) ==
    LET c1 == ReSub(<<In({"#"}, 1, -1), Lit(<<" ">>)>>, <<>>, content)
        c2 == ReSub(<<Lit(<<"*","*">>), Group(NotIn({"*"}, 1, -1), 1), Lit(<<"*","*">>)>>,
                    <<Ref(1)>>, c1)
        c3 == ReSub(<<Lit(<<"*">>), Group(NotIn({"*"}, 1, -1), 1), Lit(<<"*">>)>>,
                    <<Ref(1)>>, c2)
        c4 == ReSub(<<Lit(<<"[">>), Group(NotIn({"]"}, 1, -1), 1), Lit(<<"]","(">>),
                      NotIn({")"}, 1, -1), Lit(<<")">>)>>, <<Ref(1)>>, c3)
        c5 == ReSub(<<Lit(<<"!","[">>), Group(NotIn({"]"}, 0, -1), 1), Lit(<<"]","(">>),
                      NotIn({")"}, 1, -1), Lit(<<")">>)>>, <<>>, c4)
        c6 == ReSub(<<Lit(<<"backquote">>), NotIn({"backquote"}, 1, -1),
                      Lit(<<"backquote">>)>>, <<>>, c5)
        c7 == ReSub(<<Lit(<<"backquote","backquote","backquote">>),
                      NotIn({"backquote"}, 1, -1),
                      Lit(<<"backquote","backquote","backquote">>)>>, <<>>, c6)
        c8 == SubRuns(c7, {"\n"}, <<" ">>)
    IN  (CHOOSE r_ \in {
        (CHOOSE r_ \in {
        (CHOOSE r_ \in {
        (CHOOSE r_ \in {
            IF Len(excerpt) < 20
            THEN IF title = None THEN Raised
                 ELSE Returned(<<"N","o","t","e","s"," ","a","b","o","u","t"," ">> \o Lower(title))
            ELSE Returned(excerpt) : excerpt \in {IF Len(found) > 160 THEN Prefix(found, 157) \o Ellipsis ELSE found}} : TRUE) : found \in {IF sentence = None THEN Strip(Prefix(clean_content, 100)) ELSE sentence}} : TRUE) : sentence \in {FirstSentence(SplitRuns(clean_content, {".", "!", "?"}))}} : TRUE) : clean_content \in {SubRuns(c8, SpaceSet, <<" ">>)}} : TRUE)

_generate_fallback_frontmatter(content, existing_metadata, base_frontmatter) ==
    LET title == base_frontmatter.title
        folder == IF "folder" \in DOMAIN existing_metadata
                  THEN existing_metadata.folder ELSE NotesFolder
    IN  (CHOOSE r_ \in {
        (CHOOSE r_ \in {
            IF slug.exc \/ excerpt.exc THEN Raised
            ELSE Returned(Merge(base_frontmatter,
                                [slug |-> slug.val,
                                 category |-> _folder_to_category(folder),
                                 tags |-> _extract_basic_tags(content, title),
                                 excerpt |-> excerpt.val])) : excerpt \in {_generate_excerpt(content, title)}} : TRUE) : slug \in {_generate_slug(title)}} : TRUE)

\* A non-list "tags" value of the classifier's JSON: the string s, tagged.
NonList(s) == <<<<"<NonList>">>, s>>
IsList(tags) == tags = <<>> \/ tags[1] # <<"<NonList>">>

required_fields == {"title", "slug", "date", "category", "tags", "excerpt", "author"}

\* len(None) and None.lower() raise; the tags are coerced, never rejected.
\* frontmatter always holds title, date and author here (line 136-139).
_validate_frontmatter(frontmatter, author_name) ==
    LET has(f) == f \in DOMAIN frontmatter
        tags == IF ~has("tags") THEN <<NotesTag>>
                ELSE IF IsList(frontmatter.tags) THEN frontmatter.tags
                ELSE <<frontmatter.tags[2]>>
        excerpt == IF has("excerpt") THEN frontmatter.excerpt
                   ELSE <<"N","o","t","e","s"," ","f","r","o","m"," ">> \o Str(frontmatter.title)
    IN  (CHOOSE r_ \in {
        IF slug.exc \/ excerpt = None \/ slug.val = None THEN Raised
        ELSE Returned(Merge(frontmatter,
                 [slug |-> Keep(Lower(slug.val), SlugChars),
                  category |-> IF has("category") THEN frontmatter.category
                               ELSE PersonalCategory,
                  tags |-> Prefix([i \in 1..Len(tags) |-> Str(tags[i])], 10),
                  excerpt |-> IF Len(excerpt) > 200
                              THEN Prefix(excerpt, 197) \o Ellipsis ELSE excerpt,
                  author |-> IF has("author") THEN frontmatter.author
                             ELSE author_name])) : slug \in {IF has("slug") THEN Returned(frontmatter.slug) ELSE _generate_slug(frontmatter.title)}} : TRUE)

\* The classifier's answer, as _generate_with_claude sees it:
\*   "raise"   messages.create (or reading the answer) raises
\*   "nojson"  the text holds no {...}
\*   "badjson" the text between the braces is rejected by json.loads
\*   "json"    json.loads returns the dict obj
_generate_with_claude(content, base_frontmatter, author_name, response) ==
    CASE response.kind = "raise" -> Raised
      [] response.kind = "nojson" -> Returned(base_frontmatter)
      [] response.kind = "badjson" -> Returned(base_frontmatter)
      [] OTHER ->
           (CHOOSE r_ \in {_validate_frontmatter(frontmatter, author_name) : frontmatter \in {Merge(Merge(base_frontmatter, response.obj), [author |-> author_name])}} : TRUE)

\* generate_frontmatter without the except clause of lines 92-95: the
\* classifier's exception escapes
generate_frontmatter_propagating(content, existing_metadata, fallback_only, client, author_name, response) ==
    LET frontmatter == [title |-> existing_metadata.title,
                        date |-> existing_metadata.created,
                        author |-> author_name]
    IN  IF ~client \/ fallback_only
        THEN _generate_fallback_frontmatter(content, existing_metadata, frontmatter)
        ELSE _generate_with_claude(content, frontmatter, author_name, response)

\* existing_metadata always carries "title" and "created" in both exporters;
\* client tells whether self.client is set.
generate_frontmatter(content, existing_metadata, fallback_only, client, author_name, response) ==
    LET frontmatter == [title |-> IF "title" \in DOMAIN existing_metadata
                                  THEN existing_metadata.title ELSE UntitledNote,
                        date |-> existing_metadata.created,
                        author |-> author_name]
    IN  IF ~client \/ fallback_only
        THEN _generate_fallback_frontmatter(content, existing_metadata, frontmatter)
        ELSE (CHOOSE r_ \in {
                 IF enhanced.exc
                 THEN _generate_fallback_frontmatter(content, existing_metadata, frontmatter)
                 ELSE enhanced : enhanced \in {_generate_with_claude(content, frontmatter, author_name, response)}} : TRUE)

\* ------------------------------------------------------------------------
\* image_processor.py
\*
\* A note body is the tree BeautifulSoup parses from the HTML, kept as the
\* sequence of its top-level elements [tag, text, imgs]: text is the text of
\* the element and imgs the <img> tags inside it, in document order.  An <img>
\* is [src, alt, detected, save]: detected is what _detect_image_format finds
\* in the bytes (None: nothing), save is what becomes of the bytes:
\*   "pillow"  Pillow opens them and _convert_standard_image writes the file
\*   "raw"     Pillow rejects them and _fallback_save writes them as they are
\*   "none"    nothing is written (undecodable, too large, download failed)
\* ------------------------------------------------------------------------

UpperChar(c) ==
    IF c \in LowerSet THEN Uppers[CHOOSE i \in 1..26 : Lowers[i] = c] ELSE c

\* str.title()
TitleCase(s) ==
    [i \in 1..Len(s) |->
        IF i = 1 \/ s[i - 1] \notin (LowerSet \cup UpperSet \cup {"e-acute"})
        THEN UpperChar(s[i]) ELSE LowerChar(s[i])]

\* s.rsplit('.', 1)[0], Path(s).stem
Stem(s) ==
    LET at == {i \in 1..Len(s) : s[i] = "."}
    IN  IF at = {} THEN s ELSE SubSeq(s, 1, Max(at) - 1)

\* Path(s).suffix
Suffix(s) ==
    LET at == {i \in 1..Len(s) : s[i] = "."}
    IN  IF at = {} THEN <<>> ELSE SubSeq(s, Max(at), Len(s))

\* s.split('/')[-1], Path(s).name
BaseName(s) ==
    LET at == {i \in 1..Len(s) : s[i] = "/"}
    IN  IF at = {} THEN s ELSE SubSeq(s, Max(at) + 1, Len(s))

image_format == <<"j","p","g">>
ArticlesPrefix == <<"/","i","m","a","g","e","s","/","a","r","t","i","c","l","e","s","/">>
DataPrefix == <<"d","a","t","a",":","i","m","a","g","e","/">>
DataUrlPattern ==
    <<Lit(<<"d","a","t","a",":","i","m","a","g","e","/">>), Group(NotIn({";"}, 1, -1), 1), Lit(<<";","b","a","s","e","6","4",",">>),
      NotIn({"\n"}, 1, -1)>>

\* the images of the body, flattened in document order
RECURSIVE AllImgs(_)
AllImgs(html) ==
    IF html = <<>> THEN <<>> ELSE Head(html).imgs \o AllImgs(Tail(html))

\* the position, from 0, of the j-th <img> of element n among all of them
\* the position within its own element
IndexInElement(html, n, j) == j - 1

ImgIndex(html, n, j) == Len(AllImgs(SubSeq(html, 1, n - 1))) + j - 1

\* A byte is a one-character string, "NUL" for the zero byte; a buffer is
\* the sequence of its bytes.
heic_patterns ==
    {<<"f","t","y","p","h","e","i","c">>, <<"f","t","y","p","h","e","i","f">>, <<"f","t","y","p","m","i","f","1">>, <<"f","t","y","p","h","e","i","x">>, <<"f","t","y","p","h","v","c","C">>, <<"f","t","y","p","h","e","v","c">>, <<"f","t","y","p","m","i","f","2">>}

_detect_heic_format(image_data) ==
    IF Len(image_data) < 32 THEN FALSE
    ELSE (CHOOSE r_ \in {
             \/ \E pattern \in heic_patterns : Contains(header, pattern)
             \/ /\ SubSeq(header, 5, 8) = <<"f","t","y","p">>
                /\ \/ Contains(SubSeq(header, 9, 20), <<"h","e","i">>)
                   \/ Contains(SubSeq(header, 9, 20), <<"m","i","f">>)
          : header \in {Prefix(image_data, 32)}} : TRUE)

\* what a save leaves: the path returned (None for no path), and whether the
\* file written holds the image re-encoded by Pillow or the raw buffer
NothingSaved == [path |-> None, kind |-> "none"]

\* image_path.with_suffix('.' + extension)
WithSuffix(image_path, extension) == Stem(image_path) \o <<".">> \o extension

\* _fallback_save without the test of lines 458-460
_fallback_save_raw(image_data, image_path, env) ==
    IF env.write_fails THEN NothingSaved ELSE [path |-> image_path, kind |-> "raw"]

\* env.write_fails: open() or write() raises
_fallback_save(image_data, image_path, env) ==
    IF _detect_heic_format(image_data) THEN NothingSaved
    ELSE IF env.write_fails THEN NothingSaved
    ELSE [path |-> image_path, kind |-> "raw"]

\* env.heic_support: pillow_heif was imported; env.save_raises: the mode
\* conversion or image.save raises
_convert_heic_image(image_path, env, config_format) ==
    IF ~env.heic_support \/ env.save_raises THEN NothingSaved
    ELSE [path |-> WithSuffix(image_path, config_format), kind |-> "converted"]

_convert_standard_image(image_path, original_format, env, config_format) ==
    IF env.save_raises THEN NothingSaved
    ELSE (CHOOSE r_ \in {
             IF target_format \in {<<"j","p","g">>, <<"p","n","g">>, <<"w","e","b","p">>}
             THEN [path |-> WithSuffix(image_path, target_format), kind |-> "converted"]
             ELSE IF original_format \in {<<"h","e","i","c">>, <<"h","e","i","f">>}
                        \/ target_format \notin {<<"j","p","g">>, <<"p","n","g">>, <<"g","i","f">>, <<"w","e","b","p">>, <<"h","e","i","c">>,
                                                 <<"b","m","p">>, <<"t","i","f","f">>, <<"i","c","o">>, <<"a","v","i","f">>}
                  THEN [path |-> WithSuffix(image_path, <<"j","p","g">>), kind |-> "converted"]
                  ELSE [path |-> WithSuffix(image_path, target_format), kind |-> "converted"]
          : target_format \in {Lower(config_format)}} : TRUE)

\* env.pillow_opens: Image.open and verify accept the buffer.  An
\* original_format that is no string makes line 350 raise, which the outer
\* handler (lines 356-358) answers with _fallback_save.
_save_image(image_data, image_path, original_format, env, config_format) ==
    (CHOOSE r_ \in {
        IF ~env.pillow_opens THEN _fallback_save(image_data, image_path, env)
        ELSE IF is_heic THEN _convert_heic_image(image_path, env, config_format)
        ELSE IF original_format = None THEN _fallback_save(image_data, image_path, env)
        ELSE IF Lower(original_format) \in {<<"h","e","i","c">>, <<"h","e","i","f">>}
             THEN _convert_heic_image(image_path, env, config_format)
        ELSE _convert_standard_image(image_path, original_format, env, config_format)
     : is_heic \in {_detect_heic_format(image_data)}} : TRUE)

\* the file name under which the image is saved, or None: the outcome of
\* _save_image for an <img> whose field save tells how the save went
SavedAs(img, filename) ==
    CASE img.save = "pillow" -> Stem(filename) \o <<".">> \o image_format
      [] img.save = "raw" -> filename
      [] OTHER -> None

\* the name of the written file, or None
_extract_base64_image(img, note_name, index) ==
    LET lens == MatchLens(img.src, 1, DataUrlPattern, 1)
    IN  IF lens = NoMatch \/ img.save = "none" THEN None
        ELSE LET claimed == Lower(GroupText(img.src, 1, DataUrlPattern, lens, 1, 1))
                 mime_type == IF img.detected # None THEN img.detected ELSE claimed
             IN  SavedAs(img, generate_image_filename(note_name, index, mime_type,
                                                          MaxFilenameLength))

\* the detected format, else the extension of the URL (content-type aside)
_download_web_image(img, note_name, index) ==
    IF img.save = "none" THEN None
    ELSE LET url_ext == Lower(Suffix(BaseName(img.src)))
             mime_type == IF img.detected # None THEN img.detected
                          ELSE IF Len(url_ext) > 1 THEN Tail(url_ext) ELSE image_format
         IN  SavedAs(img, generate_image_filename(note_name, index, mime_type,
                                                      MaxFilenameLength))

\* the file written for one <img>, or None
ImageFile(img, note_name, index) ==
    IF StartsWith(img.src, DataPrefix) THEN _extract_base64_image(img, note_name, index)
    ELSE IF StartsWith(img.src, <<"c","i","d",":">>) THEN None
    ELSE IF StartsWith(img.src, <<"h","t","t","p">>) THEN _download_web_image(img, note_name, index)
    ELSE None

\* the <img> after the loop body of process_html_images
ProcessedImg(img, note_name, index) ==
    (CHOOSE r_ \in {
        IF file = None THEN img
        ELSE [img EXCEPT !.src = ArticlesPrefix \o file,
                         !.alt = IF img.alt = <<>>
                                 THEN TitleCase(Replace(Stem(file), <<"-">>, <<" ">>))
                                 ELSE img.alt] : file \in {ImageFile(img, note_name, index)}} : TRUE)

\* [html, images]: the rewritten body and the names of the files written, in
\* the order of the writes
process_html_images(html_content, note_name) ==
    [html |-> [n \in 1..Len(html_content) |->
                 [html_content[n] EXCEPT !.imgs =
                     [j \in 1..Len(html_content[n].imgs) |->
                         ProcessedImg(html_content[n].imgs[j], note_name,
                                      ImgIndex(html_content, n, j))]]],
     images |-> (CHOOSE r_ \in {
                    SelectSeq([k \in 1..Len(imgs) |-> ImageFile(imgs[k], note_name, k - 1)],
                              LAMBDA f : f # None) : imgs \in {AllImgs(html_content)}} : TRUE)]

\* ------------------------------------------------------------------------
\* mdx_converter.py
\*
\* markdownify is the library call of lines 312-315 with the options of
\* lines 62-68: ATX headings, ** for bold, one block per element, the blocks
\* parted by a blank line, * and _ of the text escaped.  The Node validator
\* of lines 70-74 is not part of the source tree: _validate_mdx_content
\* finds no file and skips (lines 715-717).
\* ------------------------------------------------------------------------

\* datetime.now().strftime('%Y-%m-%d')
Today == <<"2","0","2","6","-","1","1","-","0","3">>

Blank(s) == Strip(s) = <<>>

\* lines 335-345: an <img> without alt text gets one
WithAlt(img) ==
    IF img.alt # <<>> THEN img
    ELSE [img EXCEPT !.alt =
             IF Contains(img.src, ArticlesPrefix)
             THEN TitleCase(Replace(Stem(BaseName(img.src)), <<"-">>, <<" ">>))
             ELSE <<"I","m","a","g","e">>]

\* a <div> without text becomes a line break, and what it held is lost
_normalize_line_breaks(soup) ==
    [n \in 1..Len(soup) |->
        IF soup[n].tag = "div" /\ Blank(soup[n].text)
        THEN [tag |-> "text", text |-> <<"\n">>, imgs |-> <<>>]
        ELSE soup[n]]

\* elements without text and without an image are removed; text nodes stay
_remove_empty_elements(soup) ==
    SelectSeq(soup, LAMBDA el : el.tag = "text" \/ ~Blank(el.text) \/ el.imgs # <<>>)

\* no text of the model holds a checkbox character, a <br> or a style
_preprocess_html(html_content) ==
    _remove_empty_elements(_normalize_line_breaks(
        [n \in 1..Len(html_content) |->
            [html_content[n] EXCEPT !.imgs =
                [j \in 1..Len(html_content[n].imgs) |-> WithAlt(html_content[n].imgs[j])]]]))

escape(text) ==
    Replace(Replace(text, <<"*">>, <<"\\", "*">>), <<"_">>, <<"\\", "_">>)

RECURSIVE ImagesMarkdown(_, _)
ImagesMarkdown(imgs, inline) ==
    IF imgs = <<>> THEN <<>>
    ELSE (IF inline THEN Head(imgs).alt
          ELSE <<"!","[">> \o Head(imgs).alt \o <<"]","(">> \o Head(imgs).src \o <<")">>)
             \o ImagesMarkdown(Tail(imgs), inline)

\* one element as markdownify renders it; inside a heading an image is
\* rendered as its alt text
ElementMarkdown(el) ==
    CASE el.tag = "text" -> el.text
      [] el.tag = "h1" -> <<"#"," ">> \o escape(el.text) \o ImagesMarkdown(el.imgs, TRUE)
      [] el.tag = "h2" -> <<"#","#"," ">> \o escape(el.text) \o ImagesMarkdown(el.imgs, TRUE)
      [] el.tag = "b" -> <<"*","*">> \o escape(el.text) \o ImagesMarkdown(el.imgs, FALSE) \o <<"*","*">>
      [] OTHER -> escape(el.text) \o ImagesMarkdown(el.imgs, FALSE)

markdownify(soup) ==
    JoinWith([n \in 1..Len(soup) |-> ElementMarkdown(soup[n])], <<"\n", "\n">>)

\* soup.get_text()
RECURSIVE get_text(_)
get_text(soup) == IF soup = <<>> THEN <<>> ELSE Head(soup).text \o get_text(Tail(soup))

\* the body is empty when it holds nothing but blank text
_convert_html_to_markdown(html_content) ==
    IF \A n \in 1..Len(html_content) :
           html_content[n].tag = "text" /\ Blank(html_content[n].text)
    THEN <<>>
    ELSE Strip(markdownify(_preprocess_html(html_content)))

_fix_invalid_markdown_formatting(content) ==
    LET c1 == ReSub(<<In({"*"}, 3, -1), Group(NotIn({"*"}, 1, -1), 1), In({"*"}, 3, -1)>>,
                    <<Text(<<"*","*">>), Ref(1), Text(<<"*","*">>)>>, content)
    IN  ReSub(<<Lit(<<"<","!","-","-">>), In(SpaceSet, 0, -1), Group(Lazy(NotIn({">"}, 1, -1)), 1),
                In(SpaceSet, 0, -1), Lit(<<"-","-",">">>)>>,
              <<Text(<<"{","/","*"," ">>), Ref(1), Text(<<" ","*","/","}">>)>>, c1)

\* a literal under re.IGNORECASE
LitI(s) == <<[Lit(s) EXCEPT !.t = "liti"]>>

Quotes == {"\"", "'"}

\* lines 453-456; of the two ways the tag may end, the second begins with the
\* ">" that ends the first, so the first decides
img_pattern ==
    LitI(<<"<","i","m","g">>) \o <<NotIn({">"}, 0, -1)>> \o LitI(<<"s","r","c","=">>)
        \o <<In(Quotes, 0, 1), Group(Lit(ArticlesPrefix), 1),
             Group(NotIn(Quotes \cup {">"} \cup SpaceSet, 1, -1), 1), In(Quotes, 0, 1),
             NotIn({">"}, 0, -1), In({"/"}, 0, 1), Lit(<<">">>)>>

AltPattern ==
    <<Lit(<<"a","l","t","=">>), In(Quotes, 0, 1), Group(NotIn(Quotes \cup {">"} \cup SpaceSet, 0, -1), 1),
      In(Quotes, 0, 1)>>

\* lines 458-463, for the tag text tag and its group 1 src
convert_img_to_markdown(tag, src) ==
    (CHOOSE r_ \in {
        <<"!","[">> \o (IF alts = <<>> THEN <<"I","m","a","g","e">> ELSE alts[1]) \o <<"]","(">> \o src \o <<")">> : alts \in {FindAllFrom(tag, 1, AltPattern)}} : TRUE)

\* img_pattern.sub(convert_img_to_markdown, s) from position i on
RECURSIVE SubImgFrom(_, _)
SubImgFrom(s, i) ==
    (CHOOSE r_ \in {
        IF at = {} THEN SubSeq(s, i, Len(s))
        ELSE (CHOOSE r_ \in {
             (CHOOSE r_ \in {
                 SubSeq(s, i, j - 1)
                     \o convert_img_to_markdown(SubSeq(s, j, j + SumSeq(lens) - 1),
                                                GroupText(s, j, img_pattern, lens, 1, 1))
                     \o SubImgFrom(s, j + SumSeq(lens)) : lens \in {MatchLens(s, j, img_pattern, 1)}} : TRUE) : j \in {Min(at)}} : TRUE) : at \in {MatchesFrom(s, i, img_pattern)}} : TRUE)

\* mdx_components is off in both exporters
_post_process_markdown(markdown_content) ==
    IF markdown_content = <<>> THEN <<>>
    ELSE LET c1 == Replace(markdown_content, <<"&","l","t",";">>, <<"<">>)
             c2 == Replace(c1, <<"&","g","t",";">>, <<">">>)
             c3 == Replace(c2, <<"&","q","u","o","t",";">>, <<"\"">>)
             c4 == Replace(c3, <<"&","a","m","p",";">>, <<"&">>)
             c5 == Replace(c4, <<"&","#","3","9",";">>, <<"'">>)
             c6 == ReSub(<<In({"\n"}, 3, -1)>>, <<Text(<<"\n", "\n">>)>>, c5)
             c7 == _fix_invalid_markdown_formatting(c6)
             c8 == ReSub(<<Lit(<<"*","*">>), Group(In({"#"}, 1, 6), 1), Group(In(SpaceSet, 1, -1), 1),
                           Group(NotIn({"*"}, 1, -1), 1), Lit(<<"*","*">>)>>, <<Ref(1)>>, c7)
             c9 == ReSub(<<Bol, Group(In({"#"}, 1, 6), 1), Group(In(SpaceSet, 1, -1), 1),
                           Lit(<<"*","*">>), Group(NotIn({"*"}, 1, -1), 2), Lit(<<"*","*">>)>>,
                         <<Ref(1), Ref(2)>>, c8)
             c10 == ReSub(<<Lit(<<"<">>), Group(Lit(<<"h","t","t","p">>), 1), Group(In({"s"}, 0, 1), 1),
                            Group(Lit(<<":","/","/">>), 1), Group(NotIn({">"}, 1, -1), 1), Lit(<<">">>)>>,
                          <<Text(<<"[">>), Ref(1), Text(<<"]","(">>), Ref(1), Text(<<")">>)>>, c9)
             c11 == (CHOOSE r_ \in {SubImgFrom(text, 1) : text \in {c10}} : TRUE)
             c12 == ReSub(<<Lit(<<"!","[">>), Group(NotIn({"]"}, 0, -1), 1), Lit(<<"]","(","/","i","m","a","g","e","s","/","a","r","t","i","c","l","e","s","/">>),
                            Group(NotIn({")"}, 1, -1), 2), Lit(<<")">>)>>,
                          <<Text(<<"!","[">>), Ref(1), Text(<<"]","(","/","i","m","a","g","e","s","/","a","r","t","i","c","l","e","s","/">>), Ref(2),
                            Text(<<")">>)>>, c11)
             c13 == ReSub(<<Lit(<<"[">>), Group(NotIn({"]"}, 1, -1), 1), Lit(<<"]","(">>),
                            Group(NotIn({")"}, 1, -1), 2), Lit(<<")">>)>>,
                          <<Text(<<"[">>), Ref(1), Text(<<"]","(">>), Ref(2), Text(<<")">>)>>, c12)
         IN  RStrip(c13) \o <<"\n">>

\* float(value) succeeds: plain decimal numbers, inf and nan (exponents and
\* digit separators are in no text of the model)
IsFloat(value) ==
    LET t == Lower(Strip(value))
        body == IF t # <<>> /\ t[1] \in {"+", "-"} THEN Tail(t) ELSE t
        whole(pat) == LET lens == MatchLens(body, 1, pat, 1)
                      IN  lens # NoMatch /\ SumSeq(lens) = Len(body)
    IN  \/ body \in {<<"i","n","f">>, <<"i","n","f","i","n","i","t","y">>, <<"n","a","n">>}
        \/ body # <<>> /\ whole(<<In(DigitSet, 1, -1), In({"."}, 0, 1), In(DigitSet, 0, -1)>>)
        \/ body # <<>> /\ whole(<<Lit(<<".">>), In(DigitSet, 1, -1)>>)

special_chars == {":", "{", "}", "[", "]", "!", ">", "|", "*", "&", "%", "@", "backquote", "#", "?"}

_yaml_safe_string(value) ==
    IF value = None \/ value = <<>> THEN <<"\"", "\"">>
    ELSE LET needs_quotes ==
                 \/ Range(value) \cap special_chars # {}
                 \/ StartsWith(value, <<"-"," ">>) \/ StartsWith(value, <<"?"," ">>)
                 \/ StartsWith(value, <<":"," ">>)
                 \/ value[Len(value)] = ":"
                 \/ value \in {<<"t","r","u","e">>, <<"f","a","l","s","e">>, <<"n","u","l","l">>, <<"y","e","s">>, <<"n","o">>, <<"o","n">>, <<"o","f","f">>}
                 \/ Strip(value) # value
                 \/ Range(value) \cap {"\n", "\"", "'"} # {}
                 \/ IsFloat(value)
             escaped == Replace(Replace(value, <<"\\">>, <<"\\", "\\">>), <<"\"">>, <<"\\", "\"">>)
         IN  IF ~needs_quotes THEN value
             ELSE IF "\n" \in Range(escaped)
             THEN <<"|","-","\n"," "," ">> \o Replace(escaped, <<"\n">>, <<"\n"," "," ">>)
             ELSE <<"\"">> \o escaped \o <<"\"">>

_escape_yaml_string(value) ==
    IF value = None \/ value = <<>> THEN <<"\"", "\"">>
    ELSE IF Range(value) \cap {"\"", "'", ":", "-", "[", "]", "{", "}"} # {}
            \/ Strip(value) # value
    THEN <<"\"">> \o Replace(value, <<"\"">>, <<"\\", "\"">>) \o <<"\"">>
    ELSE value

\* lines 226-242: a date in one of the forms %Y-%m-%d and %m/%d/%Y is
\* rewritten as %Y-%m-%d, any other text is kept (the two other forms of
\* line 233 are in no date of the model)
FormatDate(date_str) ==
    LET ymd == <<Group(In(DigitSet, 4, 4), 1), Lit(<<"-">>), Group(In(DigitSet, 1, 2), 2),
                 Lit(<<"-">>), Group(In(DigitSet, 1, 2), 3)>>
        mdy == <<Group(In(DigitSet, 1, 2), 2), Lit(<<"/">>), Group(In(DigitSet, 1, 2), 3),
                 Lit(<<"/">>), Group(In(DigitSet, 4, 4), 1)>>
        form(pat) == LET lens == MatchLens(date_str, 1, pat, 1)
                     IN  IF lens # NoMatch /\ SumSeq(lens) = Len(date_str)
                         THEN GroupText(date_str, 1, pat, lens, 1, 1) \o <<"-">>
                                  \o ZeroPad(GroupText(date_str, 1, pat, lens, 1, 2), 2) \o <<"-">>
                                  \o ZeroPad(GroupText(date_str, 1, pat, lens, 1, 3), 2)
                         ELSE None
    IN  IF form(ymd) # None THEN form(ymd)
        ELSE IF form(mdy) # None THEN form(mdy)
        ELSE date_str

\* f"{field}: {value}" for a value that is a string or None
YamlScalar(field, value) ==
    field \o <<":"," ">> \o (IF value = None THEN Str(value) ELSE _yaml_safe_string(value))

\* the dicts of the model hold no key outside field_order
_dict_to_yaml_frontmatter(frontmatter_dict) ==
    LET has(f) == f \in DOMAIN frontmatter_dict
        d == frontmatter_dict
        excerpt_lines ==
            IF d.excerpt = None THEN <<<<"e","x","c","e","r","p","t",":"," ","N","o","n","e">>>>
            ELSE IF Len(d.excerpt) > 60
            THEN <<<<"e","x","c","e","r","p","t",":"," ","|","-">>>>
                     \o [i \in 1..Len(SplitOn(d.excerpt, "\n")) |->
                            <<" "," ">> \o SplitOn(d.excerpt, "\n")[i]]
            ELSE <<<<"e","x","c","e","r","p","t",":"," ">> \o _yaml_safe_string(d.excerpt)>>
        tag_lines ==
            IF d.tags = <<>> THEN <<<<"t","a","g","s",":"," ","[","]">>>>
            ELSE <<<<"t","a","g","s",":">>>> \o [i \in 1..Len(d.tags) |-> <<" "," ","-"," ">> \o Str(d.tags[i])]
        lines ==
            <<<<"-","-","-">>>>
            \o (IF has("title") THEN <<<<"t","i","t","l","e",":"," ">> \o _yaml_safe_string(d.title)>> ELSE <<>>)
            \o (IF has("slug") THEN <<<<"s","l","u","g",":"," ">> \o Str(d.slug)>> ELSE <<>>)
            \o (IF has("excerpt") THEN excerpt_lines ELSE <<>>)
            \o (IF has("date") THEN <<<<"d","a","t","e",":"," ","'">> \o FormatDate(Str(d.date)) \o <<"'">>>> ELSE <<>>)
            \o (IF has("category") THEN <<YamlScalar(<<"c","a","t","e","g","o","r","y">>, d.category)>> ELSE <<>>)
            \o (IF has("tags") THEN tag_lines ELSE <<>>)
            \o <<<<"r","e","a","d","i","n","g","T","i","m","e",":"," ">> \o _yaml_safe_string(<<"5"," ","m","i","n"," ","r","e","a","d">>)>>
            \o <<<<"f","e","a","t","u","r","e","d",":"," ","f","a","l","s","e">>>>
            \o (IF has("author") THEN <<YamlScalar(<<"a","u","t","h","o","r">>, d.author)>> ELSE <<>>)
            \o <<<<"-","-","-">>, <<>>>>
    IN  JoinWith(lines, <<"\n">>)

\* lines 166-178 of the basic path
BasicExcerpt(content) ==
    LET c1 == ReSub(<<Bos, Lit(<<"-","-","-">>), Lazy(NotIn({}, 0, -1)), Lit(<<"-","-","-">>),
                      In(SpaceSet, 0, -1)>>, <<>>, content)
        clean_content == SubRuns(c1, {"#", "*", "backquote", "[", "]", "(", ")"}, <<>>)
        first == SplitOn(clean_content, ".")[1]
    IN  IF Len(content) > 50 /\ Len(Strip(first)) > 20
        THEN Prefix(Strip(first), 150) \o (IF Len(first) > 150 THEN Ellipsis ELSE <<".">>)
        ELSE None

\* metadata carries title, created, modified and folder in both exporters;
\* the smart generator is on (use_smart_frontmatter), client tells whether it
\* holds an API client and response is the classifier's answer
_generate_frontmatter(metadata, content, client, response) ==
    (CHOOSE r_ \in {
        IF ~smart.exc THEN _dict_to_yaml_frontmatter(smart.val)
        ELSE LET base == [title |-> metadata.title, date |-> metadata.created,
                          category |-> metadata.folder, author |-> DefaultAuthor,
                          slug |-> to_kebab_case(IF metadata.title = None THEN <<>>
                                                 ELSE metadata.title, MaxFilenameLength)]
                 excerpt == BasicExcerpt(content)
                 with_excerpt == IF excerpt = None THEN base
                                 ELSE Merge(base, [excerpt |-> excerpt])
             IN  _dict_to_yaml_frontmatter(
                     IF metadata.folder # <<>> /\ metadata.folder # NotesFolder
                     THEN Merge(with_excerpt, [tags |-> <<Lower(metadata.folder)>>])
                     ELSE with_excerpt) : smart \in {generate_frontmatter(content, metadata, FALSE, client, DefaultAuthor, response)}} : TRUE)

HeadingMark == <<"#"," ">>

\* title.lower() raises AttributeError on None
_ensure_heading(content, metadata) ==
    IF content = <<>> THEN Returned(content)
    ELSE (CHOOSE r_ \in {
         (CHOOSE r_ \in {
            IF full = {} THEN Returned(content)
            ELSE (CHOOSE r_ \in {
                 LET title == IF "title" \in DOMAIN metadata THEN metadata.title
                              ELSE UntitledNote
                 IN  IF StartsWith(first_non_empty_line, <<"#">>) THEN Returned(content)
                     ELSE IF title = None THEN Raised
                     ELSE IF \/ Lower(first_non_empty_line) = Lower(title)
                             \/ Lower(Replace(first_non_empty_line, <<" ">>, <<"-">>))
                                    = Lower(Replace(title, <<" ">>, <<"-">>))
                     THEN Returned(JoinWith([lines EXCEPT ![Min(full)] = HeadingMark \o title],
                                            <<"\n">>))
                     ELSE Returned(HeadingMark \o title \o <<"\n", "\n">> \o content) : first_non_empty_line \in {Strip(lines[Min(full)])}} : TRUE) : full \in {{i \in 1..Len(lines) : Strip(lines[i]) # <<>>}}} : TRUE) : lines \in {SplitOn(content, "\n")}} : TRUE)

\* soup.get_text() of the body
_clean_html_fallback(html_content) == get_text(html_content)

_generate_fallback_content(html_content, metadata) ==
    LET title == IF "title" \in DOMAIN metadata THEN metadata.title ELSE UntitledNote
    IN  <<"-","-","-","\n","t","i","t","l","e",":"," ">> \o <<"\"">> \o _escape_yaml_string(title) \o <<"\"">>
            \o <<"\n","d","a","t","e",":"," ">> \o Today
            \o <<"\n","t","y","p","e",":"," ","n","o","t","e","\n","s","o","u","r","c","e",":"," ","a","p","p","l","e","-","n","o","t","e","s","\n","c","o","n","v","e","r","s","i","o","n","_","e","r","r","o","r",":"," ","t","r","u","e","\n","-","-","-","\n","\n">>
            \o _clean_html_fallback(html_content)

\* no exception but the one of _ensure_heading leaves the try block
convert(html_content, metadata, client, response) ==
    (CHOOSE r_ \in {
    (CHOOSE r_ \in {
        IF headed.exc THEN _generate_fallback_content(html_content, metadata)
        ELSE _generate_frontmatter(metadata, mdx_content, client, response) \o headed.val : headed \in {_ensure_heading(mdx_content, metadata)}} : TRUE) : mdx_content \in {_post_process_markdown(_convert_html_to_markdown(html_content))}} : TRUE)

\* ------------------------------------------------------------------------
\* applescript_bridge.py
\*
\* A record of a batch result is the note dict it parses to, with locked
\* telling that AppleScript answered "LOCKED" for the note.
\* ------------------------------------------------------------------------

archive_patterns ==
    {<<"a","r","c","h","i","v","e">>, <<"a","r","c","h","i","v","e","d">>, <<"a","r","c","h","i","v","e","s">>, <<"o","l","d">>, <<"d","e","l","e","t","e","d">>, <<"t","r","a","s","h">>, <<"b","a","c","k","u","p">>}

\* the pattern with the emoji holds "archive", and so do lines 108-110
_is_archive_folder(folder_name) ==
    folder_name # <<>> /\ \E pattern \in archive_patterns : Contains(Lower(folder_name), pattern)

\* the text of the body with a blank for every tag
BodyText(body) == JoinWith([n \in 1..Len(body) |-> body[n].text], <<" ">>)

extract_hashtags(body) ==
    LET found == FindAllFrom(BodyText(body), 1,
                     <<Lit(<<"#">>), Group(In(LowerSet \cup UpperSet, 1, 1), 1),
                       Group(In(LowerSet \cup UpperSet \cup DigitSet \cup {"_", "-"}, 0, -1), 1)>>)
    IN  {Lower(found[i]) : i \in 1..Len(found)}

\* line 276: the number of range fetches for total notes
NumBatches(total, size) == (total + size - 1) \div size

\* the records of batch b (from 0) of the account
BatchRecords(all, b, size) ==
    SubSeq(all, b * size + 1, IF (b + 1) * size < Len(all) THEN (b + 1) * size ELSE Len(all))

\* lines 344-397: the notes kept of the records, seen the ids kept so far
RECURSIVE ParseRecords(_, _, _)
ParseRecords(records, seen_ids, folder_filter) ==
    IF records = <<>> THEN <<>>
    ELSE LET r == Head(records)
             note_dict == [r EXCEPT !.noteFolder =
                              IF r.noteFolder = <<>> THEN NotesFolder ELSE r.noteFolder]
             dup == r.noteID \in seen_ids
             keep == /\ ~r.locked /\ ~dup
                     /\ (folder_filter = None \/ note_dict.noteFolder = folder_filter)
                     /\ ~_is_archive_folder(note_dict.noteFolder)
                     /\ <<"p","r","i","v","a","t","e">> \notin extract_hashtags(r.noteBody)
         IN  (IF keep THEN <<note_dict>> ELSE <<>>)
                 \o ParseRecords(Tail(records),
                                 IF r.locked THEN seen_ids ELSE seen_ids \cup {r.noteID},
                                 folder_filter)

\* the records of the batches that answered, in batch order (lines 337-342)
RECURSIVE FetchedRecords(_, _, _, _)
FetchedRecords(all, results, b, size) ==
    IF b >= Len(results) THEN <<>>
    ELSE (IF results[b + 1] = "ok" THEN BatchRecords(all, b, size) ELSE <<>>)
             \o FetchedRecords(all, results, b + 1, size)

\* ------------------------------------------------------------------------
\* get_all_notes on the text AppleScript answers.  A note of the account is
\* [noteID, noteName, noteBody, creationDate, modificationDate, noteFolder,
\* locked] with noteBody the HTML as text.
\* ------------------------------------------------------------------------

recordDelim == <<"<","<","<","R","E","C","O","R","D",">",">",">">>
fieldDelim == <<"|","|","|">>
LockedRecord == <<"L","O","C","K","E","D">>
ErrorPrefix == <<"E","R","R","O","R",":">>

\* s.split(sep) for a separator of one or more characters
RECURSIVE SplitStr(_, _)
SplitStr(s, sep) ==
    (CHOOSE r_ \in {
        IF at = {} THEN <<s>>
        ELSE <<SubSeq(s, 1, Min(at) - 1)>>
                 \o SplitStr(SubSeq(s, Min(at) + Len(sep), Len(s)), sep) : at \in {Occurrences(s, sep)}} : TRUE)

\* lines 185-218 of the script: the record of one note
NoteRecord(note) ==
    IF note.locked THEN LockedRecord
    ELSE JoinWith(<<note.noteName, note.noteBody, note.creationDate, note.modificationDate,
                    note.noteFolder, note.noteID>>, fieldDelim)

\* the standard output of osascript for the notes start_index..end_index of
\* all: the records joined by the delimiter, and the newline osascript adds
_fetch_notes_batch(all, start_index, end_index) ==
    JoinWith([i \in 1..(end_index - start_index + 1) |-> NoteRecord(all[start_index + i - 1])],
             recordDelim) \o <<"\n">>

\* html.unescape for the entities Notes writes in a body
html_unescape(s) ==
    Replace(Replace(Replace(s, <<"&","l","t",";">>, <<"<">>), <<"&","g","t",";">>, <<">">>), <<"&","a","m","p",";">>, <<"&">>)

\* extract_hashtags on the HTML text of a body
extract_hashtags_of(content) ==
    IF content = <<>> THEN {}
    ELSE LET text_content == ReSub(<<Lit(<<"<">>), NotIn({">"}, 1, -1), Lit(<<">">>)>>,
                                   <<Text(<<" ">>)>>, html_unescape(content))
             found == FindAllFrom(text_content, 1,
                          <<Lit(<<"#">>), Group(In(LowerSet \cup UpperSet, 1, 1), 1),
                            Group(In(LowerSet \cup UpperSet \cup DigitSet \cup {"_", "-"}, 0, -1), 1)>>)
         IN  {Lower(found[i]) : i \in 1..Len(found)}

\* line 367: note_id.split('/')[-1]
ShortId(note_id) == (CHOOSE r_ \in {parts[Len(parts)] : parts \in {SplitOn(note_id, "/")}} : TRUE)

\* lines 366-374: the dict of the parts of a record
NoteDict(parts) ==
    [noteID |-> Strip(parts[6]), shortID |-> ShortId(Strip(parts[6])),
     noteName |-> Strip(parts[1]), noteBody |-> Strip(parts[2]),
     creationDate |-> Strip(parts[3]), modificationDate |-> Strip(parts[4]),
     noteFolder |-> IF Strip(parts[5]) # <<>> THEN Strip(parts[5]) ELSE NotesFolder]

\* the test of line 355: a record with an id
IsNoteRecord(record) ==
    /\ record # <<>>
    /\ record # LockedRecord
    /\ ~StartsWith(record, ErrorPrefix)
    /\ Len(SplitStr(record, fieldDelim)) >= 6

\* the loop of lines 354-397 without the test of seen_ids: the record is kept
KeepsAll(note_dict, seen_ids, folder_filter) ==
    /\ (folder_filter \in {None, <<>>} \/ note_dict.noteFolder = folder_filter)
    /\ ~_is_archive_folder(note_dict.noteFolder)
    /\ <<"p","r","i","v","a","t","e">> \notin extract_hashtags_of(note_dict.noteBody)

\* lines 359-395: the tests a record with an id passes to be kept
Keeps(note_dict, seen_ids, folder_filter) ==
    /\ note_dict.noteID \notin seen_ids
    /\ (folder_filter \in {None, <<>>} \/ note_dict.noteFolder = folder_filter)
    /\ ~_is_archive_folder(note_dict.noteFolder)
    /\ <<"p","r","i","v","a","t","e">> \notin extract_hashtags_of(note_dict.noteBody)

\* lines 344-397: the notes kept of the records, seen the ids kept so far
RECURSIVE ParseRecordTexts(_, _, _)
ParseRecordTexts(records, seen_ids, folder_filter) ==
    IF records = <<>> THEN <<>>
    ELSE (CHOOSE r_ \in {
             IF ~IsNoteRecord(record)
             THEN ParseRecordTexts(Tail(records), seen_ids, folder_filter)
             ELSE (CHOOSE r_ \in {
                      (IF Keeps(note_dict, seen_ids, folder_filter) THEN <<note_dict>> ELSE <<>>)
                          \o ParseRecordTexts(Tail(records), seen_ids \cup {note_dict.noteID},
                                              folder_filter) :
                      note_dict \in {NoteDict(SplitStr(record, fieldDelim))}} : TRUE) :
             record \in {Strip(Head(records))}} : TRUE)

\* the records of the answers in the order in which the fetches completed,
\* from the b-th to complete
RECURSIVE AnswerRecordsAsCompleted(_, _)
AnswerRecordsAsCompleted(answers, b) ==
    IF b > Len(answers) THEN <<>>
    ELSE (CHOOSE r_ \in {
             (IF answers[k].text = <<>> THEN <<>> ELSE SplitStr(answers[k].text, recordDelim))
                 \o AnswerRecordsAsCompleted(answers, b + 1) :
             k \in {CHOOSE c \in 1..Len(answers) : answers[c].rank = b}} : TRUE)

\* lines 337-342: the records of the answers in batch order; a failed batch
\* has the answer ""
RECURSIVE AnswerRecords(_, _)
AnswerRecords(answers, b) ==
    IF b > Len(answers) THEN <<>>
    ELSE (IF answers[b].text = <<>> THEN <<>> ELSE SplitStr(answers[b].text, recordDelim))
             \o AnswerRecords(answers, b + 1)

\* ------------------------------------------------------------------------
\* main.py and notes_exporter.py
\*
\* The notes directory is a set of files [dir, name, content, note]: note is
\* the id of the note the file was written for.
\* ------------------------------------------------------------------------

InvalidChars == {"<", ">", ":", "\"", "/", "\\", "|", "?", "*"}

\* re.sub(r'[<>:"/\\|?*]', '-', filename)
ReplaceInvalid(filename) ==
    [i \in 1..Len(filename) |-> IF filename[i] \in InvalidChars THEN "-" ELSE filename[i]]

UntitledName == <<"U","n","t","i","t","l","e","d">>

\* main.py
_sanitize_filename(filename) ==
    IF filename = <<>> THEN UntitledName
    ELSE StripSet(Prefix(ReplaceInvalid(filename), 50), {".", " "})

\* notes_exporter.py; max_filename_length is 50
NotesExporter_sanitize_filename(filename) ==
    IF filename = <<>> THEN UntitledName
    ELSE LET stripped == StripSet(ReplaceInvalid(filename), {".", " "})
             cut == IF Len(stripped) > 50 THEN Strip(Prefix(stripped, 50)) ELSE stripped
         IN  IF cut = <<>> THEN UntitledName ELSE cut

\* the name the write or the move takes whatever the directory holds
TakeName(names, stem, suffix) == stem \o suffix

\* the conflict loops of main.py 219-225 and 315-322 and of notes_exporter.py
\* 306-313: the name itself, else the first of stem-1, stem-2, ... that no
\* file of the directory bears
FreeName(names, stem, suffix) ==
    IF stem \o suffix \notin names THEN stem \o suffix
    ELSE LET candidate(k) == stem \o <<"-">> \o Decimal(k) \o suffix
             counter == CHOOSE k \in 1..(Cardinality(names) + 1) :
                            /\ candidate(k) \notin names
                            /\ \A j \in 1..(k - 1) : candidate(j) \in names
         IN  candidate(counter)

NamesIn(files, dir) == {f.name : f \in {g \in files : g.dir = dir}}

CategoryPattern ==
    <<Bol>> \o LitI(<<"c","a","t","e","g","o","r","y",":">>)
        \o <<In(SpaceSet, 0, -1), In(Quotes, 0, 1), Group(NotIn(Quotes \cup {"\n", "\r"}, 1, -1), 1),
             In(Quotes, 0, 1)>>

\* content.split('---', 2)[1]
FrontmatterPart(content) ==
    LET rest == SubSeq(content, 4, Len(content))
        at == Occurrences(rest, <<"-","-","-">>)
    IN  IF at = {} THEN rest ELSE SubSeq(rest, 1, Min(at) - 1)

\* the category of the file, or None
_extract_category_from_file(content) ==
    IF ~StartsWith(content, <<"-","-","-">>) THEN None
    ELSE (CHOOSE r_ \in {
         (CHOOSE r_ \in {
            IF at = {} THEN None
            ELSE Strip(GroupText(frontmatter, Min(at), CategoryPattern,
                                 MatchLens(frontmatter, Min(at), CategoryPattern, 1), 1, 1)) : at \in {MatchesFrom(frontmatter, 1, CategoryPattern)}} : TRUE) : frontmatter \in {FrontmatterPart(content)}} : TRUE)

Uncategorized == <<"u","n","c","a","t","e","g","o","r","i","z","e","d">>

_normalize_category_name(category) ==
    IF category = <<>> THEN Uncategorized
    ELSE (CHOOSE r_ \in {
             IF normalized = <<>> THEN Uncategorized ELSE normalized : normalized \in {to_kebab_case(category, 50)}} : TRUE)

ImageRefPattern ==
    <<Lit(<<"!","[">>), NotIn({"]"}, 0, -1), Lit(<<"]","(">>), NotIn({")"}, 1, -1), Lit(<<")">>)>>

SectionMark == <<"{","/","*"," ","I","m","a","g","e","s"," ","f","r","o","m"," ","A","p","p","l","e"," ","N","o","t","e","s"," ","*","/","}">>

\* re.sub(r'-\d{3}$', '', s)
DropIndex(s) ==
    IF /\ Len(s) >= 4 /\ s[Len(s) - 3] = "-"
       /\ \A i \in (Len(s) - 2)..Len(s) : s[i] \in DigitSet
    THEN SubSeq(s, 1, Len(s) - 4) ELSE s

\* lines 447-456
ImageRef(image_path) ==
    LET alt_text == TitleCase(Replace(DropIndex(TitleCase(Replace(Stem(BaseName(image_path)),
                                                                  <<"-">>, <<" ">>))),
                                      <<"-">>, <<" ">>))
    IN  <<"!","[">> \o alt_text \o <<"]","(","/","i","m","a","g","e","s","/","a","r","t","i","c","l","e","s","/">> \o BaseName(image_path) \o <<")">>

\* the index, from 0, at which the section goes: behind the closing --- of
\* the frontmatter, then behind the first later line that starts with #
InsertionPoint(lines) ==
    LET closing == {i \in 2..Len(lines) : Strip(lines[i]) = <<"-","-","-">>}
        after == IF lines # <<>> /\ Strip(lines[1]) = <<"-","-","-">> /\ closing # {}
                 THEN Min(closing) ELSE 0
        titles == {i \in (after + 1)..Len(lines) : StartsWith(Strip(lines[i]), <<"#">>)}
    IN  IF titles # {} THEN Min(titles) ELSE after

_add_orphaned_images_fallback(mdx_content, note_name, image_paths) ==
    IF image_paths = <<>> \/ ReSearch(ImageRefPattern, mdx_content) THEN mdx_content
    ELSE (CHOOSE r_ \in {
         (CHOOSE r_ \in {
            JoinWith(SubSeq(lines, 1, insertion_point)
                         \o <<<<>>, SectionMark>>
                         \o [i \in 1..Len(image_paths) |-> ImageRef(image_paths[i])]
                         \o <<<<>>>>
                         \o SubSeq(lines, insertion_point + 1, Len(lines)),
                     <<"\n">>) : insertion_point \in {InsertionPoint(lines)}} : TRUE) : lines \in {SplitOn(mdx_content, "\n")}} : TRUE)

\* the metadata both exporters hand to convert
Metadata(note) ==
    [title |-> note.noteName, created |-> note.creationDate,
     modified |-> note.modificationDate, folder |-> note.noteFolder]

\* main.py 193-203 and notes_exporter.py 252-267: the images are extracted
\* and the body is converted.  response is the classifier's answer for the
\* note.
ConvertNote(note, has_client, response) ==
    (CHOOSE r_ \in {
        [images |-> processed.images,
         converted |-> convert(processed.html, Metadata(note), has_client, response)]
     : processed \in {process_html_images(note.noteBody, note.noteName)}} : TRUE)

\* main.py 187-216: what _process_note has at hand when it reaches the
\* conflict loop
_process_note(note, c) ==
    [images |-> c.images, converted |-> c.converted,
     content |-> _add_orphaned_images_fallback(c.converted, note.noteName, c.images),
     dir |-> _sanitize_filename(note.noteFolder),
     stem |-> Stem(generate_markdown_filename(note.noteName))]

\* notes_exporter.py 246-304: the same for _process_single_note and
\* _save_note; the converted document is written as it is
_process_single_note(note, c) ==
    [images |-> c.images, converted |-> c.converted, content |-> c.converted,
     dir |-> NotesExporter_sanitize_filename(note.noteFolder),
     stem |-> NotesExporter_sanitize_filename(note.noteName)]

\* _should_include_note with include_empty_notes off: the body is the HTML
\* string, empty when it holds no element
_should_include_note(note) == note.noteBody # <<>>

\* the errors are replaced by the new one
replace_errors(error_list, error) == <<error>>

\* main.py 47-48 (ExportStats.add_error) and notes_exporter.py 137 and 231
add_error(error_list, error) == Append(error_list, error)

\* notes_exporter.py 55-61
NoStats ==
    [notes_processed |-> 0, notes_skipped |-> 0, images_extracted |-> 0, images_failed |-> 0,
     total_size_bytes |-> 0]

\* line 215
Skipped(stats) == [stats EXCEPT !.notes_skipped = @ + 1]

\* line 259
ImagesExtracted(stats, n) == [stats EXCEPT !.images_extracted = @ + n]

\* lines 221 and 283
Processed(stats, size) ==
    [stats EXCEPT !.notes_processed = @ + 1, !.total_size_bytes = @ + size]

\* file_path.stat().st_size: the bytes of the text in UTF-8
st_size(content) ==
    Len(content)
        + Cardinality({i \in 1..Len(content) : content[i] \in {"e-acute", "nbsp"}})
        + 3 * Cardinality({i \in 1..Len(content) : content[i] = "emoji"})

\* every document passes
validate_as_valid(mdx_content) == [valid |-> TRUE, errors |-> <<>>]

\* mdx_converter.py 604-644, without the counts of the result
validate_mdx_output(mdx_content) ==
    (CHOOSE r_ \in {
        [valid |-> errs = <<>>, errors |-> errs] :
        errs \in {(IF ~StartsWith(mdx_content, <<"-","-","-">>) THEN <<<<"M","i","s","s","i","n","g"," ","f","r","o","n","t","m","a","t","t","e","r">>>> ELSE <<>>)
                     \o (IF \E i \in 2..Len(SplitOn(mdx_content, "\n")) :
                               Strip(SplitOn(mdx_content, "\n")[i]) = <<"-","-","-">>
                         THEN <<>> ELSE <<<<"M","a","l","f","o","r","m","e","d"," ","f","r","o","n","t","m","a","t","t","e","r">>>>)}} : TRUE)

\* lines 270-275: a document that is not valid leaves a warning
Warned(warning_list, note_name, validation) ==
    IF validation.valid THEN warning_list
    ELSE Append(warning_list, [note_name |-> note_name,
                               validation_errors |-> validation.errors])

\* the loop gives up on the notes that follow
AbortBatch(i, n) == n

\* the except clauses of main.py 157-164 and notes_exporter.py 223-231 end
\* the iteration: the number of notes the loop is through with after note
\* i + 1 of n failed
AfterFailure(i, n) == i + 1

\* what the except clause records for the note
ErrorEntry(which, note, text) ==
    IF which = "simple"
    THEN [type |-> "note", note_name |-> note.noteName,
          error |-> note.noteName \o <<":", " ">> \o text]
    ELSE [type |-> "note", note_name |-> note.noteName,
          error |-> <<"C","o","u","l","d"," ","n","o","t"," ","s","a","v","e"," ","n","o","t","e",":"," ">> \o text]

\* the orders in which rglob may yield the files
ScanOrders(fs) ==
    {order \in [1..Cardinality(fs) -> fs] :
        \A i, j \in 1..Cardinality(fs) : i # j => order[i] # order[j]}

\* the directory a scanned file goes to, or None (lines 293-297)
CategoryFolder(f) ==
    (CHOOSE r_ \in {
        IF category = None \/ category = <<>> THEN None
        ELSE _normalize_category_name(category) : category \in {_extract_category_from_file(f.content)}} : TRUE)

\* lines 299-312: the moves in the order of the second loop, category by
\* category in the order of first appearance, as [file, folder_name]
RECURSIVE MovePlan(_, _)
MovePlan(scanned, folders_seen) ==
    IF scanned = <<>> THEN <<>>
    ELSE LET folder_name == Head(scanned).folder_name
         IN  IF folder_name = None \/ folder_name \in folders_seen
             THEN MovePlan(Tail(scanned), folders_seen)
             ELSE SelectSeq(scanned, LAMBDA m : m.folder_name = folder_name)
                      \o MovePlan(Tail(scanned), folders_seen \cup {folder_name})

\* lines 312-334: the moves one after the other; clobbered tells that a move
\* took a name another file bore
RECURSIVE MoveAll(_, _, _)
MoveAll(plan, fs, clobbered) ==
    IF plan = <<>> THEN [fs |-> fs, clobbered |-> clobbered]
    ELSE LET mdx_file == Head(plan).file
             folder_name == Head(plan).folder_name
             name == FreeName(NamesIn(fs, folder_name), Stem(mdx_file.name),
                              Suffix(mdx_file.name))
             others == fs \ {mdx_file}
             hit == {g \in others : g.dir = folder_name /\ g.name = name}
         IN  MoveAll(Tail(plan),
                     (others \ hit) \cup {[mdx_file EXCEPT !.dir = folder_name, !.name = name]},
                     clobbered \/ hit # {})

\* _organize_by_category for one scan order; folders[f] is CategoryFolder(f)
_organize_by_category(fs, order, folders) ==
    MoveAll(MovePlan([i \in 1..Len(order) |->
                         [file |-> order[i], folder_name |-> folders[order[i]]]], {}),
            fs, FALSE)

\* ------------------------------------------------------------------------
\* State
\* ------------------------------------------------------------------------

VARIABLES
    fmIn,       \* generate_frontmatter: the arguments and the generator's setting
    fmOut,      \* generate_frontmatter: what the call returned or raised
    fmDone,     \* generate_frontmatter: the call has returned
    cvIn,       \* convert: the arguments and the generator's setting
    cvOut,      \* convert: the document returned
    cvDone,     \* convert: the call has returned
    kbIn,       \* to_kebab_case: the text and max_length
    kbOut,      \* to_kebab_case: the results of the calls made, in order
    svIn,       \* _save_image: the buffer, the path, the format, the environment
    svOut,      \* _save_image: what the call left
    svDone,     \* _save_image: the call has returned
    phIn,       \* process_html_images: the body and the name of the note
    phOut,      \* process_html_images: the body and the list returned
    phDone,     \* process_html_images: the call has returned
    gaIn,       \* get_all_notes: the notes behind the indices, the folder filter
    gaAnswers,  \* get_all_notes: batch_results, per range fetch
    gaOut,      \* get_all_notes: where the call stands and what it returned
    brIn,       \* batch ranges: the count of the account and the batch size
    brOut,      \* batch ranges: the ranges submitted
    brDone,     \* batch ranges: the ranges have been built
    dfIn,       \* _detect_image_format: the buffer, the declared type, the environment
    dfOut,      \* _detect_image_format: where the extraction stands and what it did
    gfIn,       \* _generate_filename: the arguments, the configuration, the directory
    gfOut,      \* _generate_filename: the locals of the call and where it stands
    caIn,       \* placement of one document: the exporter, the note, the classifier answer
    caOut,      \* placement of one document: the file as written and as placed
    pnIn,       \* _process_notes: the notes, what the collaborators answer, the configuration
    pnOut,      \* _process_notes: the counters, the files and where the loop stands
    orch,       \* the exporter that runs: "simple" (main.py) or "notes"
    client,     \* the frontmatter generator holds an API client
    account,    \* the records AppleScript answers for the notes of the account
    pc,         \* where export stands
    batch_results,  \* per range fetch: "pending", "ok" or "failed"
    notes,      \* what get_all_notes returned
    idx,        \* the number of notes the batch loop is through with
    exported_count,
    image_count,
    errors,     \* stats.errors (main.py), self.errors (notes_exporter.py)
    files,      \* the .mdx files under notes_dir
    image_writes,   \* the names of the image files written, in order
    artifact,   \* export_summary.txt or export_log.json, as last written
    result,     \* how export ended
    acquisition_failed, \* an AppleScript call of get_all_notes has failed
    interrupted,        \* KeyboardInterrupt came during the batch loop
    overwritten,        \* a write or a move hit a path that held a file
    outcomes,   \* per note the loop is through with: what became of it
    processing_stats,   \* self.processing_stats of NotesExporter
    warnings    \* self.warnings of NotesExporter

fmVars == <<fmIn, fmOut, fmDone>>
cvVars == <<cvIn, cvOut, cvDone>>
kbVars == <<kbIn, kbOut>>
svVars == <<svIn, svOut, svDone>>
phVars == <<phIn, phOut, phDone>>
gaVars == <<gaIn, gaAnswers, gaOut>>
brVars == <<brIn, brOut, brDone>>
dfVars == <<dfIn, dfOut>>
gfVars == <<gfIn, gfOut>>
caVars == <<caIn, caOut>>
pnVars == <<pnIn, pnOut>>
exportVars ==
    <<orch, client, account, pc, batch_results, notes, idx, exported_count, image_count,
      errors, files, image_writes, artifact, result, acquisition_failed, interrupted,
      overwritten, outcomes, processing_stats, warnings>>

vars == <<fmIn, fmOut, fmDone, cvIn, cvOut, cvDone, kbIn, kbOut, svIn, svOut, svDone, phIn, phOut, phDone, gaIn, gaAnswers, gaOut, brIn, brOut, brDone, dfIn, dfOut, gfIn, gfOut, caIn, caOut, pnIn, pnOut, orch, client, account, pc, batch_results, notes, idx, exported_count, image_count, errors, files, image_writes, artifact, result, acquisition_failed, interrupted, overwritten, outcomes, processing_stats, warnings>>

FmIdleOut == Returned([title |-> None])

\* the three parts of the state before anything is called
IdleFrontmatter == fmIn = [client |-> FALSE] /\ fmOut = FmIdleOut /\ fmDone = FALSE
IdleConvert == cvIn = [client |-> FALSE] /\ cvOut = <<>> /\ cvDone = FALSE
IdleKebab == kbIn = [max_length |-> 0] /\ kbOut = <<>>
IdleImages == phIn = [note_name |-> <<>>] /\ phOut = [html |-> <<>>, images |-> <<>>] /\ phDone = FALSE
IdleAcquire == gaIn = [folder_filter |-> None] /\ gaAnswers = <<>> /\ gaOut = [kind |-> "idle", notes |-> <<>>]
IdleRanges == brIn = [total_notes |-> 0, batch_size |-> 1] /\ brOut = <<>> /\ brDone = FALSE
IdleDetect == dfIn = [image_data |-> <<>>] /\ dfOut = [kind |-> "idle"]
IdleFilename == gfIn = [index |-> 0] /\ gfOut = [pc |-> "idle"]
IdlePlacement == caIn = [exporter |-> "none"] /\ caOut = [kind |-> "idle"]
IdleProcessNotes == pnIn = [notes |-> <<>>] /\ pnOut = [kind |-> "idle"]
IdleSaveImage == svIn = [config_format |-> image_format] /\ svOut = NothingSaved /\ svDone = FALSE
IdleExport ==
    /\ orch = "simple" /\ client = FALSE /\ account = <<>> /\ pc = "idle"
    /\ batch_results = <<>> /\ notes = <<>> /\ idx = 0
    /\ exported_count = 0 /\ image_count = 0 /\ errors = <<>>
    /\ files = {} /\ image_writes = <<>>
    /\ artifact = [written |-> FALSE, exported |-> 0, errors |-> 0]
    /\ result = "running"
    /\ acquisition_failed = FALSE /\ interrupted = FALSE /\ overwritten = FALSE
    /\ outcomes = <<>>
    /\ processing_stats = [notes_processed |-> 0, notes_skipped |-> 0, images_extracted |-> 0,
                           images_failed |-> 0, total_size_bytes |-> 0]
    /\ warnings = <<>>

\* ------------------------------------------------------------------------
\* Specification of generate_frontmatter: Init draws the content, the
\* metadata, the generator's setting and the classifier's answer; the one
\* action is the call.
\* ------------------------------------------------------------------------

FmContents ==
    {<<>>,
     <<"t","i","n","y">>,
     <<"M","e","t"," ","w","i","t","h"," ","t","h","e"," ","d","e","s","i","g","n"," ","t","e","a","m"," ","a","b","o","u","t"," ","t","h","e"," ","n","e","w"," ","p","r","o","j","e","c","t"," ","p","l","a","n","."," ","N","e","x","t"," ","s","t","e","p","s"," ","f","o","l","l","o","w",".">>,
     <<"#","R","e","c","i","p","e"," ","#","d","i","n","n","e","r"," ","#","e-acute","1","\n","\n","B","o","i","l"," ","t","h","e"," ","w","a","t","e","r"," ","a","n","d"," ","a","d","d"," ","p","a","s","t","a",","," ","t","h","e","n"," ","c","o","o","k"," ","f","o","r"," ","t","e","n"," ","m","i","n","u","t","e","s","!">>,
     <<"#"," ","T","r","i","p","\n","\n","*","*","P","a","c","k","i","n","g","*","*"," ","f","o","r"," ","t","h","e"," ","[","l","o","n","g"," ","t","r","i","p","]","(","h","t","t","p",":","/","/","x",".","y",")"," ","!","[","]","(","a",".","p","n","g",")"," ","w","i","t","h"," ","backquote","t","o","o","l","s","backquote">>}

\* a first line of 5 * LongTitleWords characters, which Notes takes as the name
LongTitleWords == 38

RECURSIVE Repeated(_, _)
Repeated(word, n) == IF n = 0 THEN <<>> ELSE word \o Repeated(word, n - 1)

LongTitle == Repeated(<<"p","l","a","n"," ">>, LongTitleWords)

FmTitles ==
    {LongTitle,
     <<"U","n","t","i","t","l","e","d">>, <<"M","e","e","t","i","n","g"," ","N","o","t","e","s">>, <<"T","r","i","p","_","t","o"," ","e-acute","t","e-acute"," ","2","0","2","4","!">>, <<"!","!","!">>}

FmFolders == {<<"N","o","t","e","s">>, <<"W","o","r","k">>, <<"M","y"," ","R","e","c","i","p","e","s">>}

FmCreated == <<"2","0","2","4","-","0","1","-","1","5">>

FmObjects ==
    {[slug |-> <<"p","l","a","n">>, category |-> <<"W","o","r","k">>, tags |-> <<<<"p","l","a","n">>>>,
      excerpt |-> LongTitle \o LongTitle],
     [slug |-> <<"T","r","i","p"," ","N","o","t","e","s","!">>, category |-> <<"T","r","a","v","e","l">>,
      tags |-> <<<<"t","r","a","v","e","l">>, <<"p","a","c","k","i","n","g">>>>, excerpt |-> <<"A"," ","p","a","c","k","i","n","g"," ","l","i","s","t",".">>],
     [category |-> <<"T","r","a","v","e","l">>, extra |-> <<"x">>],
     [slug |-> None, category |-> <<"T","r","a","v","e","l">>, tags |-> <<<<"t","r","a","v","e","l">>>>,
      excerpt |-> <<"A"," ","p","a","c","k","i","n","g"," ","l","i","s","t",".">>],
     [slug |-> <<"t","r","i","p">>, tags |-> NonList(<<"t","r","a","v","e","l",","," ","p","a","c","k","i","n","g">>), excerpt |-> <<"A"," ","l","i","s","t",".">>],
     [slug |-> <<"t","r","i","p">>, category |-> None, tags |-> <<None>>, excerpt |-> None],
     [title |-> None, category |-> <<"T","r","a","v","e","l">>],
     [title |-> <<"T","r","i","p">>, date |-> <<"t","o","d","a","y">>, author |-> <<"M","o","d","e","l">>]}

FmResponses ==
    {[kind |-> "raise"], [kind |-> "nojson"], [kind |-> "badjson"]}
        \cup {[kind |-> "json", obj |-> o] : o \in FmObjects}

FmInputs ==
    [content : FmContents,
     metadata : [title : FmTitles, created : {FmCreated}, modified : {FmCreated},
                 folder : FmFolders],
     fallback_only : BOOLEAN,
     client : BOOLEAN,
     author_name : {DefaultAuthor},
     response : FmResponses]

InitFrontmatter ==
    /\ fmIn \in FmInputs
    /\ fmOut = FmIdleOut
    /\ fmDone = FALSE
    /\ IdleConvert
    /\ IdleKebab
    /\ IdleSaveImage
    /\ IdleImages
    /\ IdleAcquire
    /\ IdleRanges
    /\ IdleDetect
    /\ IdleFilename
    /\ IdlePlacement
    /\ IdleProcessNotes
    /\ IdleExport

CallGenerateFrontmatter ==
    /\ ~fmDone
    /\ fmOut' = generate_frontmatter(fmIn.content, fmIn.metadata, fmIn.fallback_only,
                                     fmIn.client, fmIn.author_name, fmIn.response)
    /\ fmDone' = TRUE
    /\ UNCHANGED <<fmIn, cvVars, kbVars, svVars, phVars, gaVars, brVars, dfVars, gfVars, caVars, pnVars, exportVars>>

NextFrontmatter == CallGenerateFrontmatter

SpecFrontmatter == InitFrontmatter /\ [][NextFrontmatter]_vars

\* ------------------------------------------------------------------------
\* Specification of the two exporters: SimpleNotesExporter.export (main.py)
\* and NotesExporter.export (notes_exporter.py), each over a fresh export
\* directory (the directory name carries the time of the run).  Init draws
\* the exporter, the generator's setting and the account; the environment
\* decides which AppleScript calls and which file writes fail, and when the
\* user interrupts.
\* ------------------------------------------------------------------------

\* the size of a range fetch (50 in both exporters), scaled to the accounts
BatchSize == 2

PngImage ==
    [src |-> <<"d","a","t","a",":","i","m","a","g","e","/","p","n","g",";","b","a","s","e","6","4",",","i","V","B","O","R","w","0","K","G","g","o">>, alt |-> <<>>, detected |-> <<"p","n","g">>,
     save |-> "pillow"]

AnswerJson ==
    [kind |-> "json",
     obj |-> [slug |-> <<"g","r","o","c","e","r","i","e","s">>, category |-> <<"F","o","o","d">>,
              tags |-> <<<<"f","o","o","d">>, <<"s","h","o","p","p","i","n","g">>, <<"l","i","s","t">>>>,
              excerpt |-> <<"G","r","o","c","e","r","i","e","s"," ","f","o","r"," ","t","h","e"," ","w","e","e","k",".">>]]

\* the notes of the account in the order of their AppleScript indices;
\* answer is what the classifier says when asked about the note
AccountNotes ==
    <<[noteID |-> <<"p","1">>, noteName |-> <<"U","n","t","i","t","l","e","d">>, noteFolder |-> <<"N","o","t","e","s">>,
       noteBody |-> <<[tag |-> "div", text |-> <<>>, imgs |-> <<PngImage>>]>>,
       creationDate |-> <<"2","0","2","4","-","0","1","-","1","5">>, modificationDate |-> <<"2","0","2","4","-","0","1","-","1","6">>,
       locked |-> FALSE, answer |-> [kind |-> "raise"]],
      [noteID |-> <<"p","2">>, noteName |-> <<"U","n","t","i","t","l","e","d">>, noteFolder |-> <<"N","o","t","e","s">>,
       noteBody |-> <<[tag |-> "div", text |-> <<"G","r","o","c","e","r","i","e","s"," ","f","o","r"," ","t","h","e"," ","w","e","e","k",":"," ","m","i","l","k"," ","a","n","d"," ","e","g","g","s",".">>,
                       imgs |-> <<PngImage>>]>>,
       creationDate |-> <<"M","o","n","d","a","y",","," ","J","a","n","u","a","r","y"," ","1","5",","," ","2","0","2","4"," ","a","t"," ","9",":","4","1",":","0","0"," ","A","M">>,
       modificationDate |-> <<"M","o","n","d","a","y",","," ","J","a","n","u","a","r","y"," ","1","5",","," ","2","0","2","4"," ","a","t"," ","9",":","4","1",":","0","0"," ","A","M">>,
       locked |-> FALSE, answer |-> AnswerJson],
      [noteID |-> <<"p","3">>, noteName |-> <<"T","r","i","p"," ","P","l","a","n">>, noteFolder |-> <<"t","r","a","v","e","l">>,
       noteBody |-> <<[tag |-> "div", text |-> <<"t","r","i","p"," ","p","l","a","n">>, imgs |-> <<>>],
                      [tag |-> "div", text |-> <<"P","a","c","k"," ","t","h","e"," ","b","a","g","s"," ","a","n","d"," ","b","o","o","k"," ","t","h","e"," ","h","o","t","e","l",".">>,
                       imgs |-> <<>>]>>,
       creationDate |-> <<"2","0","2","4","-","0","3","-","0","2">>, modificationDate |-> <<"2","0","2","4","-","0","3","-","0","2">>,
       locked |-> FALSE, answer |-> [kind |-> "nojson"]],
      [noteID |-> <<"p","4">>, noteName |-> <<"P","a","s","s","w","o","r","d","s">>, noteFolder |-> <<"N","o","t","e","s">>,
       noteBody |-> <<>>,
       creationDate |-> <<>>, modificationDate |-> <<>>,
       locked |-> TRUE, answer |-> [kind |-> "raise"]],
      [noteID |-> <<"p","5">>, noteName |-> <<"O","l","d"," ","L","i","s","t">>, noteFolder |-> <<"A","r","c","h","i","v","e">>,
       noteBody |-> <<[tag |-> "p", text |-> <<"#","t","o","d","o"," ","b","u","y"," ","a"," ","l","a","m","p">>, imgs |-> <<>>]>>,
       creationDate |-> <<"2","0","2","3","-","1","2","-","0","1">>, modificationDate |-> <<"2","0","2","3","-","1","2","-","0","1">>,
       locked |-> FALSE, answer |-> [kind |-> "raise"]]>>

\* the notes of AccountNotes at the positions of S, in order
RECURSIVE Selected(_, _)
Selected(S, k) ==
    IF k > Len(AccountNotes) THEN <<>>
    ELSE (IF k \in S THEN <<AccountNotes[k]>> ELSE <<>>) \o Selected(S, k + 1)

Accounts == {Selected(S, 1) : S \in SUBSET (1..Len(AccountNotes))}

\* str(e) of the OSError of a failed open
WriteErrors == {<<"[","E","r","r","n","o"," ","2","8","]"," ","N","o"," ","s","p","a","c","e"," ","l","e","f","t"," ","o","n"," ","d","e","v","i","c","e">>}

NoArtifact == [written |-> FALSE, exported |-> 0, errors |-> 0]

Init ==
    /\ IdleFrontmatter
    /\ IdleConvert
    /\ IdleKebab
    /\ IdleSaveImage
    /\ IdleImages
    /\ IdleAcquire
    /\ IdleRanges
    /\ IdleDetect
    /\ IdleFilename
    /\ IdlePlacement
    /\ IdleProcessNotes
    /\ orch \in {"simple", "notes"}
    /\ client \in BOOLEAN
    /\ account \in Accounts
    /\ pc = IF orch = "notes" THEN "connect" ELSE "count"
    /\ batch_results = <<>> /\ notes = <<>> /\ idx = 0
    /\ exported_count = 0 /\ image_count = 0 /\ errors = <<>>
    /\ files = {} /\ image_writes = <<>>
    /\ artifact = NoArtifact
    /\ result = "running"
    /\ acquisition_failed = FALSE /\ interrupted = FALSE /\ overwritten = FALSE
    /\ outcomes = <<>>
    /\ processing_stats = NoStats
    /\ warnings = <<>>

\* _write_summary, _write_export_log: the counts that go into the file
Written == [written |-> TRUE, exported |-> exported_count, errors |-> Len(errors)]

\* lines 135-143 of notes_exporter.py: the error is recorded, the log is
\* written and export returns the failure
ExportFailure(message) ==
    /\ errors' = add_error(errors, [type |-> "export_failure", error |-> message])
    /\ artifact' = [written |-> TRUE, exported |-> exported_count, errors |-> Len(errors) + 1]
    /\ result' = "failure"
    /\ pc' = "done"

\* NotesExporter._test_applescript_connection: test_connection runs
\* get_all_notes on its own and fails when its count query fails
TestConnection ==
    /\ pc = "connect"
    /\ \E ok \in BOOLEAN :
          IF ok THEN pc' = "count" /\ UNCHANGED <<errors, artifact, result>>
          ELSE ExportFailure(<<"C","a","n","n","o","t"," ","c","o","n","n","e","c","t"," ","t","o"," ","A","p","p","l","e"," ","N","o","t","e","s">>)
    /\ UNCHANGED <<fmVars, cvVars, kbVars, svVars, phVars, gaVars, brVars, dfVars, gfVars, caVars, pnVars, processing_stats, warnings, orch, client, account, batch_results, notes, idx,
                   exported_count, image_count, files, image_writes, acquisition_failed,
                   interrupted, overwritten, outcomes>>

\* export with no note to work on: main.py 109-111 returns False,
\* notes_exporter.py 113-115 returns the success result
NothingToExport ==
    /\ result' = IF orch = "simple" THEN "failure" ELSE "success"
    /\ pc' = "done"
    /\ UNCHANGED <<errors, artifact>>

\* get_all_notes up to the submission of the range fetches
CountNotes ==
    /\ pc = "count"
    /\ \E ok \in BOOLEAN :
          IF ~ok
          THEN /\ acquisition_failed' = TRUE
               /\ IF orch = "simple"
                  THEN result' = "failure" /\ pc' = "done" /\ UNCHANGED <<errors, artifact>>
                  ELSE ExportFailure(<<"N","o","t","e"," ","e","x","t","r","a","c","t","i","o","n"," ","f","a","i","l","e","d">>)
               /\ UNCHANGED batch_results
          ELSE /\ UNCHANGED acquisition_failed
               /\ IF Len(account) = 0
                  THEN NothingToExport /\ UNCHANGED batch_results
                  ELSE /\ batch_results' =
                              [b \in 1..NumBatches(Len(account), BatchSize) |-> "pending"]
                       /\ pc' = "fetch"
                       /\ UNCHANGED <<errors, artifact, result>>
    /\ UNCHANGED <<fmVars, cvVars, kbVars, svVars, phVars, gaVars, brVars, dfVars, gfVars, caVars, pnVars, processing_stats, warnings, orch, client, account, notes, idx, exported_count,
                   image_count, files, image_writes, interrupted, overwritten, outcomes>>

\* one range fetch comes back (lines 312-322): its answer is kept, or "" when
\* it failed
FetchBatch ==
    /\ pc = "fetch"
    /\ \E b \in 1..Len(batch_results), ok \in BOOLEAN :
          /\ batch_results[b] = "pending"
          /\ batch_results' = [batch_results EXCEPT ![b] = IF ok THEN "ok" ELSE "failed"]
          /\ acquisition_failed' = (acquisition_failed \/ ~ok)
    /\ UNCHANGED <<fmVars, cvVars, kbVars, svVars, phVars, gaVars, brVars, dfVars, gfVars, caVars, pnVars, processing_stats, warnings, orch, client, account, pc, notes, idx, exported_count,
                   image_count, errors, files, image_writes, artifact, result, interrupted,
                   overwritten, outcomes>>

\* the rest of get_all_notes, and export up to the batch loop; neither
\* exporter of the model has a folder filter
ParseBatchResults ==
    /\ pc = "fetch"
    /\ \A b \in 1..Len(batch_results) : batch_results[b] # "pending"
    /\ notes' = ParseRecords(FetchedRecords(account, batch_results, 0, BatchSize), {}, None)
    /\ IF notes' = <<>> THEN NothingToExport
       ELSE pc' = "process" /\ UNCHANGED <<errors, artifact, result>>
    /\ UNCHANGED <<fmVars, cvVars, kbVars, svVars, phVars, gaVars, brVars, dfVars, gfVars, caVars, pnVars, processing_stats, warnings, orch, client, account, batch_results, idx, exported_count,
                   image_count, files, image_writes, acquisition_failed, interrupted,
                   overwritten, outcomes>>

\* time.sleep(1.5) of main.py lines 155 and 164, in tenths of a second
RateLimitDelay == 15

\* the delay after the note at index i (from 0) of total_notes: main.py
\* sleeps after a note that is not the last, processed (153-155) or failed
\* (162-164); the loop of notes_exporter.py (205-232) has no delay
SleepAfter(exporter, i, total_notes) ==
    IF exporter = "simple" /\ i + 1 < total_notes THEN RateLimitDelay ELSE 0

\* one iteration of the loop of _process_notes_sequential or of
\* _process_notes: the images, the conversion, the conflict loop and the
\* write, which the environment lets succeed or fail (failure)
ProcessNote ==
    /\ pc = "process"
    /\ LET note == notes[idx + 1]
           skip == orch = "notes" /\ ~_should_include_note(note)
       IN  IF skip
           THEN /\ idx' = idx + 1
                /\ outcomes' = Append(outcomes, [status |-> "skipped", note |-> note.noteID,
                                                 delay |-> SleepAfter(orch, idx, Len(notes))])
                /\ processing_stats' = Skipped(processing_stats)
                /\ UNCHANGED <<exported_count, image_count, errors, files, image_writes,
                               overwritten, warnings>>
           ELSE \E failure \in {None} \cup WriteErrors :
                \E c \in {ConvertNote(note, client, note.answer)} :
                \E d \in {IF orch = "simple" THEN _process_note(note, c)
                          ELSE _process_single_note(note, c)} :
                \E name \in {FreeName(NamesIn(files, d.dir), d.stem, MdxExt)} :
                   /\ image_writes' = image_writes \o d.images
                   /\ IF orch = "notes"
                      THEN /\ warnings' = Warned(warnings, note.noteName,
                                                 validate_mdx_output(d.content))
                           /\ processing_stats' =
                                  IF failure = None
                                  THEN Processed(ImagesExtracted(processing_stats, Len(d.images)),
                                                 st_size(d.content))
                                  ELSE ImagesExtracted(processing_stats, Len(d.images))
                      ELSE UNCHANGED <<processing_stats, warnings>>
                   /\ outcomes' = Append(outcomes,
                          [status |-> IF failure = None THEN "written" ELSE "failed",
                           failure |-> failure, note |-> note.noteID, images |-> d.images,
                           converted |-> d.converted, content |-> d.content,
                           dir |-> d.dir, name |-> name,
                           classified |-> client,
                           delay |-> SleepAfter(orch, idx, Len(notes))])
                   /\ IF failure = None
                      THEN /\ files' = {g \in files : ~(g.dir = d.dir /\ g.name = name)}
                                  \cup {[dir |-> d.dir, name |-> name, content |-> d.content,
                                         note |-> note.noteID, title |-> note.noteName]}
                           /\ overwritten' =
                                  (overwritten \/ name \in NamesIn(files, d.dir))
                           /\ exported_count' = exported_count + 1
                           /\ image_count' = image_count + Len(d.images)
                           /\ idx' = idx + 1
                           /\ UNCHANGED errors
                      ELSE /\ errors' = add_error(errors, ErrorEntry(orch, note, failure))
                           /\ image_count' = IF orch = "notes"
                                             THEN image_count + Len(d.images)
                                             ELSE image_count
                           /\ idx' = AfterFailure(idx, Len(notes))
                           /\ UNCHANGED <<files, overwritten, exported_count>>
    /\ pc' = IF idx' >= Len(notes) THEN "finish" ELSE "process"
    /\ UNCHANGED <<fmVars, cvVars, kbVars, svVars, phVars, gaVars, brVars, dfVars, gfVars, caVars, pnVars, orch, client, account, batch_results, notes, artifact,
                   result, acquisition_failed, interrupted>>

\* the user interrupts the batch loop: NotesExporter.export writes the log
\* and returns the failure (lines 130-133); nothing of SimpleNotesExporter
\* or of main catches KeyboardInterrupt and the program ends
Interrupt ==
    /\ pc = "process"
    /\ interrupted' = TRUE
    /\ pc' = "done"
    /\ IF orch = "notes"
       THEN artifact' = Written /\ result' = "failure"
       ELSE result' = "interrupted" /\ UNCHANGED artifact
    /\ UNCHANGED <<fmVars, cvVars, kbVars, svVars, phVars, gaVars, brVars, dfVars, gfVars, caVars, pnVars, processing_stats, warnings, orch, client, account, batch_results, notes, idx,
                   exported_count, image_count, errors, files, image_writes,
                   acquisition_failed, overwritten, outcomes>>

\* the rest of export after the loop: main.py 119-127 moves the files to
\* their categories in the order of some scan and writes the summary,
\* notes_exporter.py 119-128 writes the log
FinishExport ==
    /\ pc = "finish"
    /\ IF orch = "simple"
       THEN \E folders \in {[f \in files |-> CategoryFolder(f)]} :
            \E order \in ScanOrders(files) :
            \E moved \in {_organize_by_category(files, order, folders)} :
               /\ files' = moved.fs
               /\ overwritten' = (overwritten \/ moved.clobbered)
       ELSE UNCHANGED <<files, overwritten>>
    /\ artifact' = Written
    /\ result' = "success"
    /\ pc' = "done"
    /\ UNCHANGED <<fmVars, cvVars, kbVars, svVars, phVars, gaVars, brVars, dfVars, gfVars, caVars, pnVars, processing_stats, warnings, orch, client, account, batch_results, notes, idx,
                   exported_count, image_count, errors, image_writes, acquisition_failed,
                   interrupted, outcomes>>

Next ==
    \/ TestConnection
    \/ CountNotes
    \/ FetchBatch
    \/ ParseBatchResults
    \/ ProcessNote
    \/ Interrupt
    \/ FinishExport

Spec == Init /\ [][Next]_vars

\* ------------------------------------------------------------------------
\* Specification of MDXConverter.convert: Init draws the body, the metadata,
\* the generator's setting and the classifier's answer, the one action is
\* the call.
\* ------------------------------------------------------------------------

SavedImage ==
    [src |-> <<"/","i","m","a","g","e","s","/","a","r","t","i","c","l","e","s","/","u","n","t","i","t","l","e","d","-","0","0","0",".","j","p","g">>, alt |-> <<"U","n","t","i","t","l","e","d"," ","0","0","0">>,
     detected |-> <<"p","n","g">>, save |-> "pillow"]

CvBodies ==
    {<<>>,
     <<[tag |-> "div", text |-> <<>>, imgs |-> <<SavedImage>>]>>,
     <<[tag |-> "div", text |-> <<"G","r","o","c","e","r","i","e","s"," ","f","o","r"," ","t","h","e"," ","w","e","e","k",":"," ","m","i","l","k"," ","a","n","d"," ","e","g","g","s",".">>, imgs |-> <<>>]>>,
     <<[tag |-> "div", text |-> <<"t","r","i","p"," ","p","l","a","n">>, imgs |-> <<>>],
       [tag |-> "p", text |-> <<"P","a","c","k"," ","t","h","e"," ","b","a","g","s"," ","a","n","d"," ","b","o","o","k"," ","t","h","e"," ","h","o","t","e","l",".">>, imgs |-> <<SavedImage>>]>>,
     <<[tag |-> "h1", text |-> <<"P","a","c","k","i","n","g">>, imgs |-> <<>>],
       [tag |-> "p", text |-> <<"S","o","c","k","s"," ","&"," ","s","h","i","r","t","s">>, imgs |-> <<>>]>>,
     <<[tag |-> "p", text |-> <<"#","t","o","d","o"," ","b","u","y"," ","a"," ","l","a","m","p">>, imgs |-> <<>>]>>}

CvTitles == {<<"U","n","t","i","t","l","e","d">>, <<"T","r","i","p"," ","P","l","a","n">>, None}

CvInputs ==
    [html_content : CvBodies,
     metadata : [title : CvTitles, created : {<<"2","0","2","4","-","0","1","-","1","5">>}, modified : {<<"2","0","2","4","-","0","1","-","1","6">>},
                 folder : {<<"N","o","t","e","s">>, <<"t","r","a","v","e","l">>}],
     client : BOOLEAN,
     response : {[kind |-> "raise"], [kind |-> "nojson"], AnswerJson}]

InitConvert ==
    /\ cvIn \in CvInputs
    /\ cvOut = <<>>
    /\ cvDone = FALSE
    /\ IdleFrontmatter
    /\ IdleKebab
    /\ IdleSaveImage
    /\ IdleImages
    /\ IdleAcquire
    /\ IdleRanges
    /\ IdleDetect
    /\ IdleFilename
    /\ IdlePlacement
    /\ IdleProcessNotes
    /\ IdleExport

CallConvert ==
    /\ ~cvDone
    /\ cvOut' = convert(cvIn.html_content, cvIn.metadata, cvIn.client, cvIn.response)
    /\ cvDone' = TRUE
    /\ UNCHANGED <<cvIn, fmVars, kbVars, svVars, phVars, gaVars, brVars, dfVars, gfVars, caVars, pnVars, exportVars>>

NextConvert == CallConvert

SpecConvert == InitConvert /\ [][NextConvert]_vars

\* ------------------------------------------------------------------------
\* Specification of to_kebab_case: Init draws the text and max_length, the
\* one action is a call, first on the text and then on its own result.
\* ------------------------------------------------------------------------

MaxTextLen == 5
MaxMaxLength == 9

KbAlphabet == {"a", "B", "-", " ", "!"}

RECURSIVE Strings(_, _)
Strings(alphabet, n) ==
    IF n = 0 THEN {<<>>}
    ELSE {<<>>} \cup {<<c>> \o t : c \in alphabet, t \in Strings(alphabet, n - 1)}

KbTexts ==
    Strings(KbAlphabet, MaxTextLen)
        \cup {<<"C","a","f","e-acute"," ","a","u"," ","l","a","i","t">>, <<"R","e","a","c","t",".","j","s"," ","T","i","p","s"," ","2","0","2","4">>, <<"\t","\n">>, <<"emoji">>, <<"emoji", "nbsp">>,
              <<"nbsp">>, <<"e-acute","t","e-acute","-">>, <<"a", "emoji", "-", "emoji", "b">>, <<"m","y","_","n","o","t","e"," ","(","v","2",")">>}

KbInputs == [text : KbTexts, max_length : 1..MaxMaxLength]

InitKebab ==
    /\ kbIn \in KbInputs
    /\ kbOut = <<>>
    /\ IdleFrontmatter
    /\ IdleConvert
    /\ IdleSaveImage
    /\ IdleImages
    /\ IdleAcquire
    /\ IdleRanges
    /\ IdleDetect
    /\ IdleFilename
    /\ IdlePlacement
    /\ IdleProcessNotes
    /\ IdleExport

CallToKebabCase ==
    /\ Len(kbOut) < 2
    /\ kbOut' = Append(kbOut, to_kebab_case(IF kbOut = <<>> THEN kbIn.text ELSE kbOut[Len(kbOut)],
                                            kbIn.max_length))
    /\ UNCHANGED <<kbIn, fmVars, cvVars, svVars, phVars, gaVars, brVars, dfVars, gfVars, caVars, pnVars, exportVars>>

NextKebab == CallToKebabCase

SpecKebab == InitKebab /\ [][NextKebab]_vars

\* ------------------------------------------------------------------------
\* Specification of ImageProcessor._save_image: Init draws the buffer, the
\* path, the format the caller found, the target format and what Pillow and
\* the file system do; the one action is the call.
\* ------------------------------------------------------------------------

BufferLen == 40

\* the bytes followed by zero bytes up to n bytes
Padded(bytes, n) == [i \in 1..n |-> IF i <= Len(bytes) THEN bytes[i] ELSE "NUL"]

FtypBox(brands) == <<"NUL", "NUL", "NUL", " ">> \o <<"f","t","y","p">> \o brands

SvBuffers ==
    {Padded(FtypBox(<<"h","e","i","c">>), BufferLen),
     Padded(FtypBox(<<"m","s","f","1">> \o <<"NUL", "NUL", "NUL", "NUL">> \o <<"h","e","i","c">>), BufferLen),
     Padded(FtypBox(<<"m","i","f","1">>), BufferLen),
     Padded(FtypBox(<<"i","s","o","m">>), BufferLen),
     Padded(FtypBox(<<"h","e","i","c">>), 31),
     Padded(<<"0x89","P","N","G","\r","\n">>, BufferLen),
     Padded(<<"G","I","F","8","9","a">> \o <<"NUL", "NUL">> \o <<"f","t","y","p","h","e","i","c">>, BufferLen)}

SvInputs ==
    [image_data : SvBuffers,
     image_path : {<<"u","n","t","i","t","l","e","d","-","0","0","0",".","h","e","i","c">>, <<"u","n","t","i","t","l","e","d","-","0","0","0",".","p","n","g">>},
     original_format : {<<"h","e","i","c">>, <<"p","n","g">>, <<"H","E","I","F">>, None},
     env : [pillow_opens : BOOLEAN, heic_support : BOOLEAN, save_raises : BOOLEAN,
            write_fails : BOOLEAN],
     config_format : {<<"j","p","g">>, <<"p","n","g">>, <<"g","i","f">>}]

InitSaveImage ==
    /\ svIn \in SvInputs
    /\ svOut = NothingSaved
    /\ svDone = FALSE
    /\ IdleFrontmatter
    /\ IdleConvert
    /\ IdleKebab
    /\ IdleImages
    /\ IdleAcquire
    /\ IdleRanges
    /\ IdleDetect
    /\ IdleFilename
    /\ IdlePlacement
    /\ IdleProcessNotes
    /\ IdleExport

CallSaveImage ==
    /\ ~svDone
    /\ svOut' = _save_image(svIn.image_data, svIn.image_path, svIn.original_format, svIn.env,
                            svIn.config_format)
    /\ svDone' = TRUE
    /\ UNCHANGED <<svIn, fmVars, cvVars, kbVars, phVars, gaVars, brVars, dfVars, gfVars, caVars, pnVars, exportVars>>

NextSaveImage == CallSaveImage

SpecSaveImage == InitSaveImage /\ [][NextSaveImage]_vars

\* ------------------------------------------------------------------------
\* Specification of ImageProcessor.process_html_images: Init draws the body
\* with up to MaxImgs <img> elements and the name of the note; the one
\* action is the call.
\* ------------------------------------------------------------------------

MaxImgs == 3

\* what an <img> of a note may be: embedded and saved by Pillow, embedded
\* and saved raw, embedded and not saved (undecodable, oversized), a data
\* URL that is not base64, an internal reference, a web image downloaded, a
\* web image not downloaded (download disabled, HTTP error), a relative path
PhImgs ==
    {[src |-> <<"d","a","t","a",":","i","m","a","g","e","/","p","n","g",";","b","a","s","e","6","4",",","i","V","B","O","R","w","0","K","G","g","o","=">>, alt |-> <<>>, detected |-> <<"p","n","g">>, save |-> "pillow"],
     [src |-> <<"d","a","t","a",":","i","m","a","g","e","/","g","i","f",";","b","a","s","e","6","4",",","R","0","l","G","O","D","d","h">>, alt |-> <<"c","h","a","r","t">>, detected |-> None, save |-> "raw"],
     [src |-> <<"d","a","t","a",":","i","m","a","g","e","/","p","n","g",";","b","a","s","e","6","4",",","A","A","A","A">>, alt |-> <<>>, detected |-> None, save |-> "none"],
     [src |-> <<"d","a","t","a",":","i","m","a","g","e","/","p","n","g",",","A","A","A","A">>, alt |-> <<>>, detected |-> <<"p","n","g">>, save |-> "pillow"],
     [src |-> <<"c","i","d",":","7","F","3","A">>, alt |-> <<>>, detected |-> <<"p","n","g">>, save |-> "pillow"],
     [src |-> <<"h","t","t","p",":","/","/","x",".","y","/","a",".","p","n","g">>, alt |-> <<>>, detected |-> <<"p","n","g">>, save |-> "pillow"],
     [src |-> <<"h","t","t","p","s",":","/","/","x",".","y","/","b",".","p","n","g">>, alt |-> <<"m","a","p">>, detected |-> None, save |-> "none"],
     [src |-> <<"c",".","p","n","g">>, alt |-> <<>>, detected |-> <<"p","n","g">>, save |-> "pillow"]}

RECURSIVE ImgSeqs(_)
ImgSeqs(n) ==
    IF n = 0 THEN {<<>>}
    ELSE {<<>>} \cup {<<img>> \o rest : img \in PhImgs, rest \in ImgSeqs(n - 1)}

\* the first k images in a <div>, the others in a <p> after it
PhBody(imgs, k) ==
    <<[tag |-> "div", text |-> <<"P","h","o","t","o","s">>, imgs |-> SubSeq(imgs, 1, k)],
      [tag |-> "p", text |-> <<>>, imgs |-> SubSeq(imgs, k + 1, Len(imgs))]>>

PhInputs ==
    UNION {{[html_content |-> PhBody(imgs, k), note_name |-> name] :
               k \in 0..Len(imgs), name \in {<<"U","n","t","i","t","l","e","d">>, <<"T","r","i","p"," ","P","l","a","n">>}}
           : imgs \in ImgSeqs(MaxImgs)}

InitImages ==
    /\ phIn \in PhInputs
    /\ phOut = [html |-> <<>>, images |-> <<>>]
    /\ phDone = FALSE
    /\ IdleFrontmatter
    /\ IdleConvert
    /\ IdleKebab
    /\ IdleSaveImage
    /\ IdleAcquire
    /\ IdleRanges
    /\ IdleDetect
    /\ IdleFilename
    /\ IdlePlacement
    /\ IdleProcessNotes
    /\ IdleExport

CallProcessHtmlImages ==
    /\ ~phDone
    /\ phOut' = process_html_images(phIn.html_content, phIn.note_name)
    /\ phDone' = TRUE
    /\ UNCHANGED <<phIn, fmVars, cvVars, kbVars, svVars, gaVars, brVars, dfVars, gfVars, caVars, pnVars, exportVars>>

NextImages == CallProcessHtmlImages

SpecImages == InitImages /\ [][NextImages]_vars

\* ------------------------------------------------------------------------
\* Specification of AppleScriptBridge.get_all_notes: Init draws what the
\* indices of the account answer while the range fetches run (a note that
\* moves to another index during the fetches is answered twice) and the
\* folder filter; the actions are the count query, the completion of one
\* range fetch, in any order, and the parse of the answers.
\* ------------------------------------------------------------------------

MaxNotes == 3

PlainNote ==
    [noteID |-> <<"p","1">>, noteName |-> <<"A">>, noteBody |-> <<"<","p",">","h","i","<","/","p",">">>,
     creationDate |-> <<"2","0","2","4","-","1","-","5">>, modificationDate |-> <<"2","0","2","4","-","1","-","5">>,
     noteFolder |-> <<"N","o","t","e","s">>, locked |-> FALSE]

\* the notes an index can answer: a note, the same note after an edit in a
\* folder without a name, a locked note, a note of an archive folder, a
\* private note, a note of another folder, and a private note of an archive
\* folder with the field delimiter in its body
GaNotes ==
    {PlainNote,
     [PlainNote EXCEPT !.noteName = <<"B">>, !.noteFolder = <<>>, !.modificationDate = <<"2","0","2","4","-","1","-","6">>],
     [PlainNote EXCEPT !.noteID = <<"p","2">>, !.locked = TRUE],
     [PlainNote EXCEPT !.noteID = <<"p","3">>, !.noteFolder = <<"O","l","d">>],
     [PlainNote EXCEPT !.noteID = <<"p","4">>, !.noteFolder = <<"t","r","a","v","e","l">>, !.noteBody = <<"<","b",">","#","P","r","i","v","a","t","e","<","/","b",">"," ","x">>],
     [PlainNote EXCEPT !.noteID = <<"x","/","p","5">>, !.noteFolder = <<"t","r","a","v","e","l">>, !.noteBody = <<"o","k"," ","#","b">>],
     [PlainNote EXCEPT !.noteID = <<"p","6">>, !.noteFolder = <<"O","l","d">>, !.noteBody = <<"a","|","|","|","#","p","r","i","v","a","t","e">>]}

RECURSIVE NoteSeqs(_)
NoteSeqs(n) ==
    IF n = 0 THEN {<<>>}
    ELSE {<<>>} \cup {<<note>> \o rest : note \in GaNotes, rest \in NoteSeqs(n - 1)}

GaInputs ==
    [all : NoteSeqs(MaxNotes), folder_filter : {None, <<>>, <<"N","o","t","e","s">>, <<"t","r","a","v","e","l">>}]

InitAcquire ==
    /\ gaIn \in GaInputs
    /\ gaAnswers = <<>>
    /\ gaOut = [kind |-> "called", notes |-> <<>>]
    /\ IdleFrontmatter
    /\ IdleConvert
    /\ IdleKebab
    /\ IdleSaveImage
    /\ IdleImages
    /\ IdleRanges
    /\ IdleDetect
    /\ IdleFilename
    /\ IdlePlacement
    /\ IdleProcessNotes
    /\ IdleExport

\* lines 256-304: the count query, which raises when AppleScript fails, and
\* the submission of the range fetches
CountQuery ==
    /\ gaOut.kind = "called"
    /\ \E ok \in BOOLEAN :
          IF ~ok THEN gaOut' = [kind |-> "raised", notes |-> <<>>] /\ UNCHANGED gaAnswers
          ELSE IF Len(gaIn.all) = 0
               THEN gaOut' = [kind |-> "returned", notes |-> <<>>] /\ UNCHANGED gaAnswers
               ELSE /\ gaAnswers' = [b \in 1..NumBatches(Len(gaIn.all), BatchSize) |->
                                        [state |-> "pending", text |-> <<>>, rank |-> 0]]
                    /\ gaOut' = [kind |-> "fetching", notes |-> <<>>]
    /\ UNCHANGED <<gaIn, fmVars, cvVars, kbVars, svVars, phVars, brVars, dfVars, gfVars, caVars, pnVars, exportVars>>

\* lines 312-322: one range fetch completes with its answer, or with "" when
\* it raised; rank is its place in the order of as_completed
BatchCompletes ==
    /\ gaOut.kind = "fetching"
    /\ \E b \in 1..Len(gaAnswers), ok \in BOOLEAN :
          /\ gaAnswers[b].state = "pending"
          /\ gaAnswers' = [gaAnswers EXCEPT ![b] =
                [state |-> "done",
                 rank |-> Cardinality({c \in 1..Len(gaAnswers) : gaAnswers[c].state = "done"}) + 1,
                 text |-> IF ok THEN _fetch_notes_batch(gaIn.all, (b - 1) * BatchSize + 1,
                                         IF b * BatchSize < Len(gaIn.all) THEN b * BatchSize
                                         ELSE Len(gaIn.all))
                          ELSE <<>>]]
    /\ UNCHANGED <<gaIn, gaOut, fmVars, cvVars, kbVars, svVars, phVars, brVars, dfVars, gfVars, caVars, pnVars, exportVars>>

\* lines 337-421: the answers are parsed in the order of the batch numbers
ParseInOrder ==
    /\ gaOut.kind = "fetching"
    /\ \A b \in 1..Len(gaAnswers) : gaAnswers[b].state = "done"
    /\ gaOut' = [kind |-> "returned",
                 notes |-> ParseRecordTexts(AnswerRecords(gaAnswers, 1), {}, gaIn.folder_filter)]
    /\ UNCHANGED <<gaIn, gaAnswers, fmVars, cvVars, kbVars, svVars, phVars, brVars, dfVars, gfVars, caVars, pnVars, exportVars>>

NextAcquire == CountQuery \/ BatchCompletes \/ ParseInOrder

SpecAcquire == InitAcquire /\ [][NextAcquire]_vars

\* ------------------------------------------------------------------------
\* Specification of the batch ranges of AppleScriptBridge.get_all_notes:
\* Init draws the count the account answers and the batch size of the
\* bridge; the action builds the ranges the fetches are submitted with.
\* ------------------------------------------------------------------------

\* line 271: the cap on the notes one call fetches
max_notes == 9999

\* lines 271-291 with the start of a range computed from the batch number
\* alone: consecutive ranges share an index
batch_ranges_from_zero(total_notes, batch_size) ==
    [batch_num \in 1..NumBatches(IF total_notes < max_notes THEN total_notes ELSE max_notes, batch_size) |->
        [start_index |-> (batch_num - 1) * batch_size,
         end_index |-> IF batch_num * batch_size < total_notes THEN batch_num * batch_size
                       ELSE total_notes]]

\* lines 271-291: the ranges (start_index, end_index) in the order of the
\* batch numbers, which the model counts from 1
batch_ranges(total_notes, batch_size) ==
    (CHOOSE r_ \in {
        [batch_num \in 1..NumBatches(notes_to_fetch, batch_size) |->
            [start_index |-> (batch_num - 1) * batch_size + 1,
             end_index |-> IF batch_num * batch_size < notes_to_fetch THEN batch_num * batch_size
                           ELSE notes_to_fetch]] :
        notes_to_fetch \in {IF total_notes < max_notes THEN total_notes ELSE max_notes}} : TRUE)

MaxTotal == 14
MaxBatchSize == 7

\* the counts and batch sizes: the small ones, and the counts around the cap
\* with the batch size of the configuration, with a batch size that is not a
\* divisor of the cap and with one larger than the cap
BrInputs ==
    [total_notes : 1..MaxTotal, batch_size : 1..MaxBatchSize]
        \cup [total_notes : (max_notes - 2)..(max_notes + 2),
              batch_size : {50, 101, 4000, max_notes, max_notes + 1}]

InitRanges ==
    /\ brIn \in BrInputs
    /\ brOut = <<>>
    /\ brDone = FALSE
    /\ IdleFrontmatter
    /\ IdleConvert
    /\ IdleKebab
    /\ IdleSaveImage
    /\ IdleImages
    /\ IdleAcquire
    /\ IdleDetect
    /\ IdleFilename
    /\ IdlePlacement
    /\ IdleProcessNotes
    /\ IdleExport

\* lines 271-291: the ranges of one call
BuildRanges ==
    /\ ~brDone
    /\ brOut' = batch_ranges(brIn.total_notes, brIn.batch_size)
    /\ brDone' = TRUE
    /\ UNCHANGED <<brIn, fmVars, cvVars, kbVars, svVars, phVars, gaVars, dfVars, gfVars, caVars, pnVars, exportVars>>

NextRanges == BuildRanges

SpecRanges == InitRanges /\ [][NextRanges]_vars

\* ------------------------------------------------------------------------
\* Specification of the extraction of one retrieved buffer (lines 238-250
\* of _extract_base64_image, 295-315 of _download_web_image): Init draws the
\* buffer, the type the data URL or the response declares and the
\* environment of the save; the one action detects, names and saves.
\* ------------------------------------------------------------------------

JpegSignature == <<"0xFF", "0xD8", "0xFF">>

\* lines 506-550: the format of the signature of the buffer, or None
_detect_image_format(image_data) ==
    IF Len(image_data) < 16 THEN None
    ELSE (CHOOSE r_ \in {
             IF StartsWith(header, JpegSignature) THEN <<"j","p","g">>
             ELSE IF StartsWith(header, <<"0x89","P","N","G","\r","\n","0x1A","\n">>) THEN <<"p","n","g">>
             ELSE IF StartsWith(header, <<"G","I","F","8">>) THEN <<"g","i","f">>
             ELSE IF StartsWith(header, <<"R","I","F","F">>) /\ Contains(SubSeq(image_data, 9, 16), <<"W","E","B","P">>)
                  THEN <<"w","e","b","p">>
             ELSE IF StartsWith(header, <<"B","M">>) THEN <<"b","m","p">>
             ELSE IF StartsWith(header, <<"I","I","*","NUL">>) \/ StartsWith(header, <<"M","M","NUL","*">>)
                  THEN <<"t","i","f","f">>
             ELSE IF StartsWith(header, <<"NUL","NUL","0x01","NUL">>) THEN <<"i","c","o">>
             ELSE IF _detect_heic_format(image_data) THEN <<"h","e","i","c">>
             ELSE None : header \in {Prefix(image_data, 16)}} : TRUE)

\* lines 238-250 and 298-315: the detected format replaces the declared
\* one, the file is named with it and saved
ExtractBuffer(image_data, declared, note_name, index, env, config_format) ==
    LET detected_format == _detect_image_format(image_data)
        mime_type == IF detected_format # None THEN detected_format ELSE declared
        filename == generate_image_filename(note_name, index, mime_type, MaxFilenameLength)
    IN  [kind |-> "returned", detected |-> detected_format, mime_type |-> mime_type,
         filename |-> filename,
         saved |-> _save_image(image_data, filename, mime_type, env, config_format)]

\* buffers with the JPEG signature of 3, 15, 16 and BufferLen bytes, one of
\* them with an ftyp box, and buffers of the other signatures
DfBuffers ==
    {JpegSignature,
     Padded(JpegSignature \o <<"0xE0">>, 15),
     Padded(JpegSignature \o <<"0xE0">>, 16),
     Padded(JpegSignature \o <<"0xE1">> \o <<"f","t","y","p","h","e","i","c">>, BufferLen),
     Padded(<<"0x89","P","N","G","\r","\n","0x1A","\n">>, BufferLen),
     Padded(<<"G","I","F","8","9","a">>, BufferLen),
     Padded(<<"R","I","F","F">> \o <<"NUL","NUL","NUL","NUL">> \o <<"W","E","B","P","V","P","8"," ">>, BufferLen),
     Padded(<<"B","M">>, BufferLen),
     Padded(<<"I","I","*","NUL">>, BufferLen),
     Padded(<<"NUL","NUL","0x01","NUL">>, BufferLen),
     Padded(FtypBox(<<"h","e","i","c">>), BufferLen),
     Padded(<<"<","s","v","g",">">>, BufferLen)}

DfInputs ==
    [image_data : DfBuffers,
     declared : {<<"p","n","g">>, <<"j","p","e","g">>, <<"h","e","i","c">>},
     env : [pillow_opens : BOOLEAN, heic_support : BOOLEAN, save_raises : BOOLEAN,
            write_fails : BOOLEAN],
     config_format : {<<"j","p","g">>, <<"p","n","g">>}]

InitDetect ==
    /\ dfIn \in DfInputs
    /\ dfOut = [kind |-> "called"]
    /\ IdleFrontmatter
    /\ IdleConvert
    /\ IdleKebab
    /\ IdleSaveImage
    /\ IdleImages
    /\ IdleAcquire
    /\ IdleRanges
    /\ IdleFilename
    /\ IdlePlacement
    /\ IdleProcessNotes
    /\ IdleExport

ExtractOne ==
    /\ dfOut.kind = "called"
    /\ dfOut' = ExtractBuffer(dfIn.image_data, dfIn.declared, <<"T","r","i","p"," ","P","l","a","n">>, 0, dfIn.env,
                              dfIn.config_format)
    /\ UNCHANGED <<dfIn, fmVars, cvVars, kbVars, svVars, phVars, gaVars, brVars, gfVars, caVars, pnVars, exportVars>>

NextDetect == ExtractOne

SpecDetect == InitDetect /\ [][NextDetect]_vars

\* ------------------------------------------------------------------------
\* Specification of ImageProcessor._generate_filename: Init draws the
\* arguments, the configured format and the attachment directory; the
\* actions are the statements before the loop, one pass of the loop body
\* after a test that found the name taken, and the return after a test that
\* found it free.
\* ------------------------------------------------------------------------

\* line 593: the counter above which the loop is left
MaxCounter == 999

\* the counter is left as it is
SameCounter(counter) == counter

\* line 590
NextCounter(counter) == counter + 1

\* lines 562-570: the extension of the file
ImageExtension(mime_type, config_format) ==
    IF Lower(mime_type) \in {<<"h","e","i","c">>, <<"h","e","i","f">>} THEN config_format
    ELSE (CHOOSE r_ \in {
             IF config_format # <<>> /\ config_format # extension THEN config_format ELSE extension :
             extension \in {CASE mime_type \in {<<"j","p","e","g">>, <<"j","p","g">>} -> <<"j","p","g">>
                              [] mime_type = <<"h","e","i","f">> -> <<"h","e","i","c">>
                              [] mime_type \in {<<"t","i","f","f">>, <<"t","i","f">>} -> <<"t","i","f","f">>
                              [] mime_type \in {<<"x","-","i","c","o","n">>, <<"v","n","d",".","m","i","c","r","o","s","o","f","t",".","i","c","o","n">>} -> <<"i","c","o">>
                              [] OTHER -> mime_type}} : TRUE)

\* lines 579-590: the name tried after a collision, with the counter before
\* the index part
CounterName(original_filename, index, counter) ==
    (CHOOSE r_ \in {
        IF dots = {} THEN original_filename \o <<"-">> \o ZeroPad(Decimal(counter), 2)
        ELSE (CHOOSE q_ \in {
                 IF Len(name_part) >= Len(index_part)
                      /\ SubSeq(name_part, Len(name_part) - Len(index_part) + 1, Len(name_part)) = index_part
                 THEN SubSeq(name_part, 1, Len(name_part) - 4) \o <<"-">>
                          \o ZeroPad(Decimal(counter), 2) \o index_part \o <<".">> \o ext_part
                 ELSE name_part \o <<"-">> \o ZeroPad(Decimal(counter), 2) \o <<".">> \o ext_part :
                 name_part \in {SubSeq(original_filename, 1, Max(dots) - 1)},
                 ext_part \in {SubSeq(original_filename, Max(dots) + 1, Len(original_filename))},
                 index_part \in {<<"-">> \o ZeroPad(Decimal(index), 3)}} : TRUE) :
        dots \in {{i \in 1..Len(original_filename) : original_filename[i] = "."}}} : TRUE)

\* the attachment directory that holds the first name of the call when 0 is
\* taken and the name with counter k when k is taken
Directory(note_name, index, mime_type, config_format, taken) ==
    (CHOOSE r_ \in {
        {original_filename : k \in taken \cap {0}}
            \cup {CounterName(original_filename, index, k) : k \in taken \ {0}} :
        original_filename \in {generate_image_filename(note_name, index,
                                   ImageExtension(mime_type, config_format), MaxFilenameLength)}} : TRUE)

\* the directories: empty, with the first name, with the first names in a
\* row, with a gap, without the first name
GfTaken == {{}, {0}, {0, 1}, {0, 2}, 0..5, {1, 2}}

\* the directories with all the names the loop can try but the last, with
\* all of them, and with more
GfFull == {0..(MaxCounter - 2), 0..(MaxCounter - 1), 0..(MaxCounter + 1)}

GfInputs ==
    {[note_name |-> a[1], index |-> a[2], mime_type |-> a[3], config_format |-> a[4],
      directory |-> Directory(a[1], a[2], a[3], a[4], a[5])] :
        a \in ({<<"T","r","i","p"," ","P","l","a","n">>, <<"!","!","!">>} \X {0, 12} \X {<<"p","n","g">>, <<"H","E","I","C">>} \X {<<"j","p","g">>, <<>>} \X GfTaken)
                 \cup ({<<"T","r","i","p"," ","P","l","a","n">>} \X {12} \X {<<"p","n","g">>} \X {<<"j","p","g">>} \X GfFull)}

InitFilename ==
    /\ gfIn \in GfInputs
    /\ gfOut = [pc |-> "called"]
    /\ IdleFrontmatter
    /\ IdleConvert
    /\ IdleKebab
    /\ IdleSaveImage
    /\ IdleImages
    /\ IdleAcquire
    /\ IdleRanges
    /\ IdleDetect
    /\ IdlePlacement
    /\ IdleProcessNotes
    /\ IdleExport

\* lines 562-577: the extension, the first name, the counter
StartGenerateFilename ==
    /\ gfOut.pc = "called"
    /\ gfOut' = (CHOOSE r_ \in {
                    [pc |-> "loop", extension |-> extension, counter |-> 1, probes |-> 0,
                     passes |-> 0, fallback |-> FALSE,
                     original_filename |-> generate_image_filename(gfIn.note_name, gfIn.index,
                                               extension, MaxFilenameLength),
                     filename |-> generate_image_filename(gfIn.note_name, gfIn.index,
                                      extension, MaxFilenameLength)] :
                    extension \in {ImageExtension(gfIn.mime_type, gfIn.config_format)}} : TRUE)
    /\ UNCHANGED <<gfIn, fmVars, cvVars, kbVars, svVars, phVars, gaVars, brVars, dfVars, caVars, pnVars, exportVars>>

\* lines 578-593: the test (self.attachments_dir / filename).exists() finds
\* the name taken and the body runs: the name with the counter, the next
\* counter, and past the last counter the way out of the loop
ProbeTaken ==
    /\ gfOut.pc = "loop"
    /\ gfOut.filename \in gfIn.directory
    /\ gfOut' = [gfOut EXCEPT !.pc = IF NextCounter(gfOut.counter) > MaxCounter THEN "fallback"
                                     ELSE "loop",
                              !.counter = NextCounter(gfOut.counter),
                              !.probes = gfOut.probes + 1, !.passes = gfOut.passes + 1,
                              !.filename = CounterName(gfOut.original_filename, gfIn.index,
                                                       gfOut.counter)]
    /\ UNCHANGED <<gfIn, fmVars, cvVars, kbVars, svVars, phVars, gaVars, brVars, dfVars, caVars, pnVars, exportVars>>

\* lines 594-601: the name built from the time, which is returned untested
TimestampFallback ==
    /\ gfOut.pc = "fallback"
    /\ \E timestamp \in {<<"1","7","6","2","1","2","8","0","0","0">>, <<"1","7","6","2","1","2","8","0","0","1">>} :
          gfOut' = [gfOut EXCEPT !.pc = "returned", !.fallback = TRUE,
                       !.filename = generate_image_filename(<<"i","m","a","g","e","-">> \o timestamp,
                                        gfIn.index, gfOut.extension, MaxFilenameLength)]
    /\ UNCHANGED <<gfIn, fmVars, cvVars, kbVars, svVars, phVars, gaVars, brVars, dfVars, caVars, pnVars, exportVars>>

\* lines 578 and 601: the test finds the name free and it is returned
ProbeFree ==
    /\ gfOut.pc = "loop"
    /\ ~gfOut.filename \in gfIn.directory
    /\ gfOut' = [gfOut EXCEPT !.pc = "returned", !.probes = gfOut.probes + 1]
    /\ UNCHANGED <<gfIn, fmVars, cvVars, kbVars, svVars, phVars, gaVars, brVars, dfVars, caVars, pnVars, exportVars>>

NextFilename == StartGenerateFilename \/ ProbeTaken \/ TimestampFallback \/ ProbeFree

\* the loop runs on: no statement of it waits for anything.  The statements
\* before and after the loop are straight-line code.
SpecFilename == InitFilename /\ [][NextFilename]_vars /\ WF_vars(ProbeTaken \/ ProbeFree)

\* ------------------------------------------------------------------------
\* Specification of the placement of one document: Init draws the exporter,
\* the folder and the title of the note and what the classifier answers for
\* the category; the one action is the run over that note: the conversion,
\* the write under the folder of the note and, in SimpleNotesExporter, the
\* organize pass.
\* ------------------------------------------------------------------------

\* the categories the classifier answers, among them one of punctuation
\* only, an empty one and one of blanks
CaCategories ==
    {<<"F","o","o","d">>, <<"M","e","a","l"," ","P","l","a","n","n","i","n","g">>, <<"t","r","a","v","e","l">>, <<"!","!","!">>, <<>>, <<" "," ">>, <<"C","+","+">>}

\* the answers: none (no client), one without a category, one per category
CaResponses ==
    {[kind |-> "raise"], [kind |-> "json", obj |-> [slug |-> <<"p","l","a","n">>]]}
        \cup {[kind |-> "json", obj |-> [slug |-> <<"p","l","a","n">>, category |-> c]] : c \in CaCategories}

CaNote(title, folder, response) ==
    [noteID |-> <<"p","1">>, noteName |-> title, noteFolder |-> folder,
     noteBody |-> <<[tag |-> "div", text |-> <<"P","a","c","k"," ","t","h","e"," ","b","a","g","s"," ","a","n","d"," ","b","o","o","k"," ","t","h","e"," ","h","o","t","e","l",".">>, imgs |-> <<>>]>>,
     creationDate |-> <<"2","0","2","4","-","0","3","-","0","2">>, modificationDate |-> <<"2","0","2","4","-","0","3","-","0","2">>,
     locked |-> FALSE, answer |-> response]

CaInputs ==
    [exporter : {"simple", "notes"}, title : {<<"T","r","i","p"," ","P","l","a","n">>, <<"U","n","t","i","t","l","e","d">>},
     folder : {<<"N","o","t","e","s">>, <<"t","r","a","v","e","l">>, <<"M","y"," ","R","e","c","i","p","e","s">>}, response : CaResponses]

InitPlacement ==
    /\ caIn \in CaInputs
    /\ caOut = [kind |-> "called"]
    /\ IdleFrontmatter
    /\ IdleConvert
    /\ IdleKebab
    /\ IdleSaveImage
    /\ IdleImages
    /\ IdleAcquire
    /\ IdleRanges
    /\ IdleDetect
    /\ IdleFilename
    /\ IdleProcessNotes
    /\ IdleExport

\* main.py 187-230 and 280-334, notes_exporter.py 246-322: the document of
\* the note is written under the folder of the note; SimpleNotesExporter
\* then moves it to the directory of its category
PlaceDocument ==
    /\ caOut.kind = "called"
    /\ \E note \in {CaNote(caIn.title, caIn.folder, caIn.response)} :
       \E c \in {ConvertNote(note, caIn.response.kind # "raise", note.answer)} :
       \E d \in {IF caIn.exporter = "simple" THEN _process_note(note, c)
                 ELSE _process_single_note(note, c)} :
       \E f \in {[dir |-> d.dir, name |-> FreeName({}, d.stem, MdxExt), content |-> d.content,
                  note |-> note.noteID, title |-> note.noteName]} :
          caOut' = [kind |-> "placed", written |-> f,
                    file |-> IF caIn.exporter = "simple"
                             THEN CHOOSE g \in _organize_by_category({f}, <<f>>,
                                                   [h \in {f} |-> CategoryFolder(h)]).fs : TRUE
                             ELSE f]
    /\ UNCHANGED <<caIn, fmVars, cvVars, kbVars, svVars, phVars, gaVars, brVars, dfVars, gfVars, pnVars, exportVars>>

NextPlacement == PlaceDocument

SpecPlacement == InitPlacement /\ [][NextPlacement]_vars

\* ------------------------------------------------------------------------
\* Specification of NotesExporter._process_notes with its collaborators as
\* the tests replace them: Init draws the notes with their bodies as text
\* and, per note, the images process_html_images returns, the document
\* convert returns and whether the write of _save_note fails, and the
\* setting include_empty_notes; the actions are one pass of the loop and
\* its end.
\* ------------------------------------------------------------------------

MaxItems == 2

\* every note is included
IncludeAll(note_body, include_empty) == TRUE

\* notes_exporter.py 234-244 on the body as text
ShouldInclude(note_body, include_empty) ==
    ~(~include_empty /\ (note_body = <<>> \/ Strip(note_body) = <<>>))

\* notes_exporter.py 209-231: one pass of the loop over item, which holds
\* the note and what the collaborators do for it
ProcessItem(st, item, include_empty) ==
    IF ~ShouldInclude(item.note.noteBody, include_empty)
    THEN [st EXCEPT !.i = @ + 1, !.processing_stats = Skipped(@)]
    ELSE LET d == _process_single_note(item.note, [images |-> item.images,
                                                    converted |-> item.mdx_content])
             name == FreeName(NamesIn(st.files, d.dir), d.stem, MdxExt)
             measured == [st EXCEPT !.i = @ + 1,
                             !.image_count = @ + Len(item.images),
                             !.processing_stats = ImagesExtracted(@, Len(item.images)),
                             !.warnings = Warned(@, item.note.noteName,
                                                 validate_mdx_output(item.mdx_content))]
         IN  IF item.failure # None
             THEN [measured EXCEPT !.errors = add_error(@, ErrorEntry("notes", item.note,
                                                                      item.failure))]
             ELSE [measured EXCEPT
                      !.files = @ \cup {[dir |-> d.dir, name |-> name, content |-> d.content,
                                         note |-> item.note.noteID, title |-> item.note.noteName]},
                      !.processing_stats = Processed(@, st_size(d.content)),
                      !.exported_count = @ + 1]

\* bodies: empty, of white space, with an element, with a
\* letter between blanks
PnBodies == {<<>>, <<" ", "\n", "\t">>, <<"<","p",">","h","i","<","/","p",">">>, <<" ","x"," ">>}

\* documents: with a frontmatter block, without one, with an open one
PnDocuments == {<<"-","-","-","\n","t","i","t","l","e",":"," ","A","\n","-","-","-","\n","\n","#"," ","A","\n">>, <<"N","o"," ","f","r","o","n","t","m","a","t","t","e","r"," ","h","e","r","e">>, <<"-","-","-","\n","t","i","t","l","e",":"," ","A">>}

PnItems ==
    [body : PnBodies, mdx_content : PnDocuments, images : {<<>>, <<<<"a","-","0","0","0",".","j","p","g">>>>},
     failure : {None} \cup WriteErrors]

\* the note at position k of the list, with the name and the id of its place
PnItem(k, choice) ==
    [note |-> [noteID |-> <<"p">> \o Decimal(k), noteName |-> <<"N">> \o Decimal(k),
               noteBody |-> choice.body, noteFolder |-> NotesFolder],
     mdx_content |-> choice.mdx_content, images |-> choice.images, failure |-> choice.failure]

PnInputs ==
    {[notes |-> [k \in 1..Len(choices) |-> PnItem(k, choices[k])], include_empty_notes |-> b] :
        choices \in UNION {[1..m -> PnItems] : m \in 1..MaxItems}, b \in BOOLEAN}

InitProcessNotes ==
    /\ pnIn \in PnInputs
    /\ pnOut = [kind |-> "loop", i |-> 0, exported_count |-> 0, image_count |-> 0,
                errors |-> <<>>, warnings |-> <<>>, processing_stats |-> NoStats, files |-> {}]
    /\ IdleFrontmatter
    /\ IdleConvert
    /\ IdleKebab
    /\ IdleSaveImage
    /\ IdleImages
    /\ IdleAcquire
    /\ IdleRanges
    /\ IdleDetect
    /\ IdleFilename
    /\ IdlePlacement
    /\ IdleExport

\* lines 209-231: the pass for the next note
ProcessNextNote ==
    /\ pnOut.kind = "loop"
    /\ pnOut.i < Len(pnIn.notes)
    /\ pnOut' = ProcessItem(pnOut, pnIn.notes[pnOut.i + 1], pnIn.include_empty_notes)
    /\ UNCHANGED <<pnIn, fmVars, cvVars, kbVars, svVars, phVars, gaVars, brVars, dfVars, gfVars, caVars, exportVars>>

\* line 209: the loop is through
LoopReturns ==
    /\ pnOut.kind = "loop"
    /\ pnOut.i = Len(pnIn.notes)
    /\ pnOut' = [pnOut EXCEPT !.kind = "returned"]
    /\ UNCHANGED <<pnIn, fmVars, cvVars, kbVars, svVars, phVars, gaVars, brVars, dfVars, gfVars, caVars, exportVars>>

NextProcessNotes == ProcessNextNote \/ LoopReturns

SpecProcessNotes == InitProcessNotes /\ [][NextProcessNotes]_vars

\* the record of the rule-based path for the arguments of the call
RuleBasedRecord ==
    _generate_fallback_frontmatter(
        fmIn.content, fmIn.metadata,
        [title |-> fmIn.metadata.title, date |-> fmIn.metadata.created,
         author |-> fmIn.author_name])

\* the call went to the classifier, and the classifier answered with kind k
ClassifierAnswered(k) ==
    fmDone /\ fmIn.client /\ ~fmIn.fallback_only /\ fmIn.response.kind = k

\* C4: when the classifier call raises with a client configured,
\* generate_frontmatter returns exactly the rule-based record for the same
\* content and metadata, with all seven fields, and raises nothing.
C4_ClassifierErrorFallsBack ==
    ClassifierAnswered("raise") =>
        /\ ~fmOut.exc
        /\ fmOut = RuleBasedRecord
        /\ required_fields \subseteq DOMAIN fmOut.val

C4_Witness ==
    /\ ClassifierAnswered("raise")
    /\ fmOut.val.slug = <<"t","r","i","p","_","t","o","-","e-acute","t","e-acute","-","2","0","2","4">>

\* C5: on every synthesis path the returned record holds all required
\* fields, and a classifier answer that cannot be parsed yields the
\* rule-based record.
C5_AllPathsComplete ==
    fmDone =>
        /\ ~fmOut.exc
        /\ required_fields \subseteq DOMAIN fmOut.val
        /\ (ClassifierAnswered("nojson") \/ ClassifierAnswered("badjson")
                => fmOut = RuleBasedRecord)

\* the classifier answered without a JSON object and the record lacks fields
C5_Witness ==
    /\ ClassifierAnswered("nojson")
    /\ DOMAIN fmOut.val = {"title", "date", "author"}

\* the outcomes of the notes whose write failed, and the errors recorded for
\* notes, both in the order of the batch
FailedOutcomes == SelectSeq(outcomes, LAMBDA o : o.status = "failed")
NoteErrors == SelectSeq(errors, LAMBDA e : e.type = "note")

EndsWith(s, p) == Len(p) <= Len(s) /\ SubSeq(s, Len(s) - Len(p) + 1, Len(s)) = p

\* the batch loop is over and was not interrupted
BatchOver == pc = "finish" \/ (pc = "done" /\ ~interrupted /\ notes # <<>>)

\* C1: in both exporters a note whose processing raises is recorded in the
\* error list with its name and the error text, and the loop goes on: the
\* notes are taken in their order, none is left out after a failure, and
\* when the loop is over every note of the batch has been taken.
C1_BatchNeverAborts ==
    /\ idx = Len(outcomes) /\ Len(outcomes) <= Len(notes)
    /\ \A i \in 1..Len(outcomes) : outcomes[i].note = notes[i].noteID
    /\ Len(NoteErrors) = Len(FailedOutcomes)
    /\ \A k \in 1..Len(FailedOutcomes) :
          \E i \in 1..Len(notes) :
             /\ notes[i].noteID = FailedOutcomes[k].note
             /\ NoteErrors[k].note_name = notes[i].noteName
             /\ EndsWith(NoteErrors[k].error, FailedOutcomes[k].failure)
             /\ orch = "simple" => StartsWith(NoteErrors[k].error, notes[i].noteName)
    /\ BatchOver => Len(outcomes) = Len(notes)

\* a note failed and the note after it was written
C1_Witness ==
    /\ BatchOver
    /\ \E i \in 1..(Len(outcomes) - 1) :
          outcomes[i].status = "failed" /\ outcomes[i + 1].status = "written"

\* C2: over a run of SimpleNotesExporter no write and no move takes a path
\* that exists: no two files bear the same name in the same directory, no
\* document is overwritten, and the .mdx files are as many as the documents
\* written, one for each.
C2_NoDocumentOverwritten ==
    /\ ~overwritten
    /\ \A f, g \in files : (f.dir = g.dir /\ f.name = g.name) => f = g
    /\ Cardinality(files) = exported_count
    /\ \A i \in 1..Len(outcomes) :
          outcomes[i].status = "written" =>
              Cardinality({f \in files : f.note = outcomes[i].note}) = 1

\* a complete run in which the write of a note and the move of a file both
\* met a taken name
C2_Witness ==
    /\ orch = "simple" /\ pc = "done" /\ result = "success"
    /\ \E f \in files : f.name = <<"u","n","t","i","t","l","e","d","-","1",".","m","d","x">>
    /\ \E f \in files : f.name = <<"t","r","i","p","-","p","l","a","n","-","1",".","m","d","x">>

\* C3: the image files written to the attachment directory in one run bear
\* pairwise distinct names, within a note and across notes, so that no
\* image file is overwritten.
C3_ImageNamesDistinct ==
    \A i, j \in 1..Len(image_writes) : i # j => image_writes[i] # image_writes[j]

\* C6: in both exporters an interrupt during the batch loop has the counts
\* and the errors gathered so far written to the log or the summary before
\* the run ends.
C6_InterruptFlushes ==
    (interrupted /\ pc = "done") =>
        /\ artifact.written
        /\ artifact.exported = exported_count
        /\ artifact.errors = Len(errors)

\* the run of NotesExporter that was interrupted after a note was written
C6_Witness ==
    /\ orch = "notes" /\ interrupted /\ pc = "done"
    /\ exported_count > 0 /\ artifact.written

\* C7: when an AppleScript call of get_all_notes fails, the count query or
\* one range fetch, the run ends with failure and no note of it is processed
\* or written.
C7_AcquisitionErrorIsFatal ==
    acquisition_failed =>
        /\ pc # "process"
        /\ outcomes = <<>> /\ files = {}
        /\ pc = "done" => result = "failure"

\* the slug of the title of the note a file was written for
TitleSlug(f) == to_kebab_case(f.title, MaxFilenameLength)

\* C8: at the end of a run of SimpleNotesExporter the k files of one
\* category directory whose titles have the same slug are named slug.mdx,
\* slug-1.mdx, ..., slug-(k-1).mdx.
C8_SuffixesAreLeast ==
    (orch = "simple" /\ pc = "done" /\ result = "success") =>
        \A f \in files :
            LET same == {g \in files : g.dir = f.dir /\ TitleSlug(g) = TitleSlug(f)}
            IN  {g.name : g \in same}
                    = {TitleSlug(f) \o MdxExt}
                          \cup {TitleSlug(f) \o <<"-">> \o Decimal(j) \o MdxExt :
                                   j \in 1..(Cardinality(same) - 1)}

\* the lines of the document after the frontmatter block
BodyLines(document) ==
    (CHOOSE r_ \in {
        LET closing == {i \in 2..Len(lines) : lines[i] = <<"-","-","-">>}
        IN  IF closing = {} THEN lines ELSE SubSeq(lines, Min(closing) + 1, Len(lines))
     : lines \in {SplitOn(document, "\n")}} : TRUE)

\* C9: the body of every non-empty document that convert returns has a
\* first non-blank line, and that line starts with "#".
C9_HeadingFirst ==
    (cvDone /\ cvOut # <<>>) =>
        (CHOOSE r_ \in {
            \E i \in 1..Len(body) :
                /\ StartsWith(Strip(body[i]), <<"#">>)
                /\ \A j \in 1..(i - 1) : Strip(body[j]) = <<>>
         : body \in {BodyLines(cvOut)}} : TRUE)

\* convert was called with a title that is a string and returned a document
\* with frontmatter and nothing after it
C9_Witness ==
    /\ cvDone /\ cvIn.metadata.title # None
    /\ cvIn.html_content # <<>>
    /\ \A i \in 1..Len(BodyLines(cvOut)) : Strip(BodyLines(cvOut)[i]) = <<>>

\* C10: every written document for which images were extracted holds an
\* image reference: where the converted body has none, the marked section
\* with one reference for each image.
C10_ImagesReferenced ==
    \A i \in 1..Len(outcomes) :
        (outcomes[i].status = "written" /\ outcomes[i].images # <<>>) =>
            /\ ReSearch(ImageRefPattern, outcomes[i].content)
            /\ ~ReSearch(ImageRefPattern, outcomes[i].converted) =>
                   /\ Contains(outcomes[i].content, SectionMark)
                   /\ \A n \in 1..Len(outcomes[i].images) :
                         Contains(outcomes[i].content, ImageRef(outcomes[i].images[n]))

\* SimpleNotesExporter wrote a note whose body lost its only image and put
\* the section into the document
C10_Witness ==
    /\ orch = "simple"
    /\ \E i \in 1..Len(outcomes) :
          /\ outcomes[i].status = "written" /\ outcomes[i].images # <<>>
          /\ ~ReSearch(ImageRefPattern, outcomes[i].converted)
          /\ Contains(outcomes[i].content, SectionMark)

\* what is left of the text after normalization, before the sentinel and the
\* truncation
Survives(text) ==
    StripSet(SubRuns(Keep(SubRuns(Lower(NfkdAscii(text)), KebabSeparators, <<"-">>), SlugChars),
                     {"-"}, <<"-">>), {"-"})

\* what validate_filename accepts: ^[a-z0-9]+(?:-[a-z0-9]+)*$
KebabShape(r) ==
    /\ r # <<>>
    /\ Range(r) \subseteq SlugChars
    /\ r[1] # "-" /\ r[Len(r)] # "-"
    /\ \A i \in 1..(Len(r) - 1) : ~(r[i] = "-" /\ r[i + 1] = "-")

\* C13: to_kebab_case is idempotent: the call on its own result, with the
\* same max_length, returns that result.
C13_Idempotent == Len(kbOut) = 2 => kbOut[2] = kbOut[1]

\* the empty text gives the whole sentinel, and the sentinel is cut
C13_Witness ==
    /\ kbIn.text = <<>> /\ kbIn.max_length = 5
    /\ kbOut = <<Untitled, Prefix(Untitled, 5)>>

C15_Truncates ==
    kbOut # <<>> =>
        /\ Len(kbOut[1]) <= kbIn.max_length
        /\ (CHOOSE r_ \in {
               (Len(slug) > kbIn.max_length
                   /\ RFindHyphen(Prefix(slug, kbIn.max_length)) > (kbIn.max_length * 2) \div 3)
               => kbOut[1] = RStripSet(Prefix(slug, RFindHyphen(Prefix(slug, kbIn.max_length))), {"-"})
            : slug \in {IF Survives(kbIn.text) = <<>> THEN Untitled ELSE Survives(kbIn.text)}} : TRUE)

\* a slug was cut at its last hyphen
C15_Witness ==
    /\ kbIn.text = <<"a", "a", "a", "-", "a">> /\ kbIn.max_length = 4
    /\ kbOut # <<>> /\ kbOut[1] = <<"a", "a", "a">>

\* C16: on every path of generate_frontmatter the slug of the record
\* returned holds only characters of [a-z0-9-].
C16_SlugIsUrlSafe ==
    (fmDone /\ ~fmOut.exc /\ "slug" \in DOMAIN fmOut.val) =>
        Range(fmOut.val.slug) \subseteq SlugChars

\* the classifier's slug "Trip Notes!" came back cleaned by
\* _validate_frontmatter
C16_Witness ==
    /\ ClassifierAnswered("json")
    /\ "slug" \in DOMAIN fmIn.response.obj
    /\ fmIn.response.obj.slug = <<"T","r","i","p"," ","N","o","t","e","s","!">>
    /\ ~fmOut.exc /\ fmOut.val.slug = <<"t","r","i","p","n","o","t","e","s">>

\* C17: on every path of generate_frontmatter the excerpt of the record
\* returned has at most 200 characters, and at most 160 where the record is
\* the rule-based one.
C17_ExcerptIsCapped ==
    (fmDone /\ ~fmOut.exc /\ "excerpt" \in DOMAIN fmOut.val) =>
        /\ Len(fmOut.val.excerpt) <= 200
        /\ fmOut = RuleBasedRecord => Len(fmOut.val.excerpt) <= 160

\* the classifier's excerpt of more than 200 characters came back cut to 200
C17_Witness ==
    /\ ClassifierAnswered("json")
    /\ "excerpt" \in DOMAIN fmIn.response.obj
    /\ fmIn.response.obj.excerpt = LongTitle \o LongTitle
    /\ ~fmOut.exc /\ Len(fmOut.val.excerpt) = 200

Extracted(img) ==
    /\ img.save # "none"
    /\ \/ MatchLens(img.src, 1, DataUrlPattern, 1) # NoMatch
       \/ StartsWith(img.src, <<"h","t","t","p">>)

\* C12: process_html_images returns for every body; the k-th <img> of the
\* body has its src rewritten to /images/articles/<file> exactly when its
\* extraction left a file, whose name bears the index k - 1 and stands in
\* the returned list at the rank of k among the extracted ones; every other
\* <img> is returned as it was and is not in the list, whatever became of
\* the images before it.
C12_ImagesAreIndependent ==
    phDone =>
        (CHOOSE r_ \in {
            /\ Len(io[2]) = Len(io[1])
            /\ [n \in 1..Len(phOut.html) |-> Len(phOut.html[n].imgs)]
                   = [n \in 1..Len(phIn.html_content) |-> Len(phIn.html_content[n].imgs)]
            /\ Len(phOut.images) = Cardinality({k \in 1..Len(io[1]) : Extracted(io[1][k])})
            /\ \A k \in 1..Len(io[1]) :
                  IF Extracted(io[1][k])
                  THEN /\ io[2][k].src
                            = ArticlesPrefix
                                \o phOut.images[Cardinality({j \in 1..k : Extracted(io[1][j])})]
                       /\ Contains(io[2][k].src, <<"-">> \o ZeroPad(Decimal(k - 1), 3) \o <<".">>)
                  ELSE io[2][k] = io[1][k]
         : io \in {<<AllImgs(phIn.html_content), AllImgs(phOut.html)>>}} : TRUE)

\* an image that failed stands between two that were saved, in two elements
C12_Witness ==
    /\ phDone
    /\ Len(phIn.html_content[1].imgs) = 1 /\ Len(phIn.html_content[2].imgs) = 2
    /\ Extracted(phIn.html_content[1].imgs[1])
    /\ ~Extracted(phIn.html_content[2].imgs[1])
    /\ Extracted(phIn.html_content[2].imgs[2])
    /\ Len(phOut.images) = 2

\* the notes of the account whose range fetch answered
FetchedNotes ==
    {gaIn.all[i] : i \in {j \in 1..Len(gaIn.all) :
                             gaAnswers[((j - 1) \div BatchSize) + 1].text # <<>>}}

\* the dicts of the records with an id, in the order of the batch numbers
RECURSIVE RecordDicts(_)
RecordDicts(records) ==
    IF records = <<>> THEN <<>>
    ELSE (IF IsNoteRecord(Strip(Head(records)))
          THEN <<NoteDict(SplitStr(Strip(Head(records)), fieldDelim))>> ELSE <<>>)
             \o RecordDicts(Tail(records))

\* C18: the list get_all_notes returns has no two records with the same
\* noteID, and each returned record is the first of the fetched records with
\* its id in the order of the batch numbers, whatever the order in which the
\* range fetches completed.
C18_NoDuplicateIds ==
    gaOut.kind = "returned" /\ gaAnswers # <<>> =>
        LET dicts == RecordDicts(AnswerRecords(gaAnswers, 1))
        IN  /\ \A i, j \in 1..Len(gaOut.notes) :
                   gaOut.notes[i].noteID = gaOut.notes[j].noteID => i = j
            /\ \A k \in 1..Len(gaOut.notes) :
                   \E p \in 1..Len(dicts) :
                       /\ dicts[p] = gaOut.notes[k]
                       /\ \A q \in 1..(p - 1) : dicts[q].noteID # gaOut.notes[k].noteID

\* two range fetches answered records with one id and different names, and
\* the one of the first batch was returned
C18_Witness ==
    /\ gaOut.kind = "returned"
    /\ Len(gaAnswers) = 2
    /\ \E d \in Range(RecordDicts(AnswerRecords(SubSeq(gaAnswers, 1, 1), 1))),
          e \in Range(RecordDicts(AnswerRecords(SubSeq(gaAnswers, 2, 2), 1))) :
          /\ d.noteID = e.noteID /\ d # e
          /\ d \in Range(gaOut.notes)
          /\ e \notin Range(gaOut.notes)

\* the record AppleScript answers for the note parses to the dict
StemsFrom(note_dict, note) ==
    /\ IsNoteRecord(Strip(NoteRecord(note)))
    /\ NoteDict(SplitStr(Strip(NoteRecord(note)), fieldDelim)) = note_dict

\* C19: no record get_all_notes returns is the record of a note that is
\* password-protected, that lies in an archive-named folder or whose body
\* holds the hashtag #private; with a folder filter every returned record is
\* of a note of that folder.
C19_ExcludedNotesStayOut ==
    gaOut.kind = "returned" /\ gaAnswers # <<>> =>
        \A k \in 1..Len(gaOut.notes) : \A note \in FetchedNotes :
            StemsFrom(gaOut.notes[k], note) =>
                /\ ~note.locked
                /\ ~_is_archive_folder(note.noteFolder)
                /\ <<"p","r","i","v","a","t","e">> \notin extract_hashtags_of(note.noteBody)
                /\ (gaIn.folder_filter \notin {None, <<>>}
                       => gaIn.folder_filter = (IF note.noteFolder = <<>> THEN NotesFolder
                                                ELSE note.noteFolder))

\* a locked note, a note of an archive folder and a private note were
\* fetched, none with a delimiter in a field, and nothing was returned
C19_Witness ==
    /\ gaOut.kind = "returned"
    /\ Len(gaIn.all) = 3
    /\ \A b \in 1..Len(gaAnswers) : gaAnswers[b].text # <<>>
    /\ \E note \in FetchedNotes : note.locked
    /\ \E note \in FetchedNotes : note.noteFolder = <<"O","l","d">> /\ ~Contains(note.noteBody, fieldDelim)
    /\ \E note \in FetchedNotes : note.noteID = <<"p","4">>
    /\ gaOut.notes = <<>>

\* C20: after every document but the last the batch loop waits the fixed
\* delay, whether the document was written or failed, and it does not wait
\* after the last one; so no two classifier calls follow each other without
\* a delay, in SimpleNotesExporter and in NotesExporter.
C20_DelayBetweenDocuments ==
    /\ \A i \in 1..Len(outcomes) :
          outcomes[i].delay = IF i < Len(notes) THEN RateLimitDelay ELSE 0
    /\ \A i \in 1..(Len(outcomes) - 1) :
          (outcomes[i].status # "skipped" /\ outcomes[i].classified
               /\ outcomes[i + 1].status # "skipped" /\ outcomes[i + 1].classified)
              => outcomes[i].delay >= RateLimitDelay

\* SimpleNotesExporter is through with a batch in which a note failed and a
\* note was written, with the delay after each note but the last
C20_Witness ==
    /\ orch = "simple" /\ client
    /\ Len(outcomes) = Len(notes) /\ Len(notes) >= 3
    /\ \E i \in 1..(Len(outcomes) - 1) : outcomes[i].status = "failed" /\ outcomes[i].delay = RateLimitDelay
    /\ \E i \in 1..(Len(outcomes) - 1) : outcomes[i].status = "written" /\ outcomes[i].delay = RateLimitDelay
    /\ outcomes[Len(outcomes)].delay = 0

\* C30: for every count N >= 1 and batch size b >= 1 the ranges of
\* get_all_notes partition 1..min(N, 9999): the first starts at 1, each
\* starts right after the one before, the last ends at min(N, 9999), each
\* holds between 1 and b indices, and every index of the interval lies in
\* exactly one range.
C30_RangesPartition ==
    brDone =>
        LET n == IF brIn.total_notes < max_notes THEN brIn.total_notes ELSE max_notes
        IN  /\ brOut # <<>>
            /\ brOut[1].start_index = 1
            /\ brOut[Len(brOut)].end_index = n
            /\ \A k \in 1..(Len(brOut) - 1) : brOut[k + 1].start_index = brOut[k].end_index + 1
            /\ \A k \in 1..Len(brOut) :
                   /\ brOut[k].end_index - brOut[k].start_index + 1 >= 1
                   /\ brOut[k].end_index - brOut[k].start_index + 1 <= brIn.batch_size
            /\ \A i \in 1..n :
                   Cardinality({k \in 1..Len(brOut) :
                                   brOut[k].start_index <= i /\ i <= brOut[k].end_index}) = 1

\* the account holds more notes than the cap, and the last of several ranges
\* is shorter than the batch size and ends at the cap
C30_Witness ==
    /\ brDone
    /\ brIn.total_notes > max_notes
    /\ Len(brOut) > 2
    /\ brOut[Len(brOut)].end_index = max_notes
    /\ brOut[Len(brOut)].end_index - brOut[Len(brOut)].start_index + 1 < brIn.batch_size

\* the records of the notes of the account whose range fetch answered, by
\* ascending index: batch number first, position within the batch second
RECURSIVE RecordsByIndex(_)
RecordsByIndex(b) ==
    IF b > Len(gaAnswers) THEN <<>>
    ELSE (IF gaAnswers[b].text = <<>> THEN <<>>
          ELSE SplitStr(_fetch_notes_batch(gaIn.all, (b - 1) * BatchSize + 1,
                                           IF b * BatchSize < Len(gaIn.all) THEN b * BatchSize
                                           ELSE Len(gaIn.all)), recordDelim))
             \o RecordsByIndex(b + 1)

\* C29: the list get_all_notes returns is determined by the account, the
\* folder filter and the fetches that answered, and not by the order in which
\* the concurrent fetches completed: it is the parse of the records by
\* ascending batch number and position, so the record kept among duplicates
\* is the one with the lowest index.
C29_CompletionOrderIrrelevant ==
    gaOut.kind = "returned" /\ gaAnswers # <<>> =>
        gaOut.notes = ParseRecordTexts(RecordsByIndex(1), {}, gaIn.folder_filter)

\* the second range fetch completed before the first, both answered a record
\* with the same id, and the list returned starts with the record of the
\* first batch and does not hold the one of the second
C29_Witness ==
    /\ gaOut.kind = "returned"
    /\ Len(gaAnswers) = 2
    /\ gaAnswers[2].rank = 1 /\ gaAnswers[1].rank = 2
    /\ Len(gaOut.notes) = 2
    /\ gaOut.notes[1].noteID = gaIn.all[1].noteID
    /\ gaIn.all[3].noteID = gaIn.all[1].noteID
    /\ gaOut.notes[1].noteName = gaIn.all[1].noteName
    /\ gaIn.all[3].noteName # gaIn.all[1].noteName

\* C23: every buffer whose first three bytes are FF D8 FF, whatever its
\* length and whatever type is declared, is detected as 'jpg' by
\* _detect_image_format, and the detected format replaces the declared one:
\* the file is named with the extension jpg and handed to the save as jpg.
C23_JpegSignatureWins ==
    dfOut.kind = "returned" /\ StartsWith(dfIn.image_data, JpegSignature) =>
        /\ dfOut.detected = <<"j","p","g">>
        /\ dfOut.mime_type = <<"j","p","g">>
        /\ Suffix(dfOut.filename) = <<".","j","p","g">>

\* a buffer of at least 16 bytes with the signature, declared as PNG, was
\* detected as jpg and named so
C23_Witness ==
    /\ dfOut.kind = "returned"
    /\ StartsWith(dfIn.image_data, JpegSignature)
    /\ Len(dfIn.image_data) >= 16
    /\ dfIn.declared = <<"p","n","g">>
    /\ dfOut.detected = <<"j","p","g">>
    /\ dfOut.filename = <<"t","r","i","p","-","p","l","a","n","-","0","0","0",".","j","p","g">>

\* a buffer with the signature and at least 16 bytes is detected as jpg
C23_LongJpegDetected ==
    dfOut.kind = "returned" /\ StartsWith(dfIn.image_data, JpegSignature)
                            /\ Len(dfIn.image_data) >= 16 =>
        /\ dfOut.detected = <<"j","p","g">>
        /\ Suffix(dfOut.filename) = <<".","j","p","g">>

\* what holds of the locals of _generate_filename in every state of a call
FilenameBounds ==
    gfOut.pc \in {"loop", "fallback", "returned"} =>
        /\ gfOut.probes <= MaxCounter
        /\ gfOut.passes <= MaxCounter
        /\ gfOut.counter = gfOut.passes + 1
        /\ (gfOut.pc = "loop" /\ gfOut.passes > 0 =>
               gfOut.filename = CounterName(gfOut.original_filename, gfIn.index, gfOut.passes))
        /\ (gfOut.pc = "fallback") = (gfOut.counter > MaxCounter /\ ~gfOut.fallback)
        /\ (gfOut.pc = "returned" =>
               gfOut.fallback = (gfOut.counter > MaxCounter))
        /\ (gfOut.pc = "returned" /\ gfOut.fallback =>
               StartsWith(gfOut.filename, <<"i","m","a","g","e","-","1","7">>))
        /\ (gfOut.pc = "returned" /\ ~gfOut.fallback =>
               ~gfOut.filename \in gfIn.directory)

\* C27: _generate_filename terminates for every state of the attachment
\* directory: the loop tests at most 999 names, each after the first with the
\* next counter before the index part, and once the counter exceeds 999 the
\* call leaves the loop with the name built from the timestamp.
C27_GenerateFilenameTerminates ==
    /\ []FilenameBounds
    /\ (gfOut.pc = "loop" ~> gfOut.pc \in {"fallback", "returned"})

\* the directory holds every name the loop tries: the call returned the
\* timestamp name after 999 tests, the last on the name with counter 998
C27_Witness ==
    /\ gfOut.pc = "returned"
    /\ gfOut.fallback
    /\ gfOut.probes = MaxCounter
    /\ gfOut.counter = MaxCounter + 1
    /\ gfOut.original_filename = <<"t","r","i","p","-","p","l","a","n","-","0","1","2",".","j","p","g">>
    /\ gfOut.filename = <<"i","m","a","g","e","-","1","7","6","2","1","2","8","0","0","1","-","0","1","2",".","j","p","g">>

\* the value of the category line of the frontmatter block of the document,
\* without the quotes of the YAML, or None when the block has no such line
FrontmatterCategory(document) ==
    (CHOOSE r_ \in {
        LET at == {i \in 1..Len(lines) : StartsWith(lines[i], <<"c","a","t","e","g","o","r","y",":">>)}
            value == Strip(SubSeq(lines[Min(at)], 10, Len(lines[Min(at)])))
        IN  IF at = {} THEN None
            ELSE IF Len(value) >= 2 /\ value[1] = "\"" /\ value[Len(value)] = "\""
                 THEN SubSeq(value, 2, Len(value) - 1)
                 ELSE value
     : lines \in {SplitOn(FrontmatterPart(document), "\n")}} : TRUE)

\* C22: the directory a document is finally placed in is the kebab-case slug
\* of the category of its frontmatter, and "uncategorized" when the category
\* is missing, empty or has no character that survives the normalization.
C22_DirectoryIsCategorySlug ==
    caOut.kind = "placed" =>
        (CHOOSE r_ \in {
            caOut.file.dir = (IF category = None \/ Strip(category) = <<>> \/ Survives(category) = <<>>
                              THEN Uncategorized
                              ELSE to_kebab_case(category, 50))
         : category \in {FrontmatterCategory(caOut.written.content)}} : TRUE)

\* SimpleNotesExporter placed a document of the folder Notes with the
\* category "Meal Planning" in the directory meal-planning
C22_Witness ==
    /\ caOut.kind = "placed"
    /\ caIn.exporter = "simple"
    /\ caIn.folder = <<"N","o","t","e","s">>
    /\ FrontmatterCategory(caOut.written.content) = <<"M","e","a","l"," ","P","l","a","n","n","i","n","g">>
    /\ caOut.written.dir = <<"N","o","t","e","s">>
    /\ caOut.file.dir = <<"m","e","a","l","-","p","l","a","n","n","i","n","g">>

\* in SimpleNotesExporter a document whose category has a character that
\* survives the normalization is placed in the directory of its slug
C22_SimpleNamedCategory ==
    caOut.kind = "placed" /\ caIn.exporter = "simple" =>
        (CHOOSE r_ \in {
            (category # None /\ Survives(category) # <<>>)
                => caOut.file.dir = to_kebab_case(category, 50)
         : category \in {FrontmatterCategory(caOut.written.content)}} : TRUE)

\* C28: the organize pass of SimpleNotesExporter leaves a document that was
\* written into the directory of its category where it is: the only document
\* of its title ends at <category slug>/<title slug>.mdx, without a numeric
\* suffix, also when the sanitized folder of the note is the category slug.
C28_InPlaceDocumentStays ==
    (/\ caOut.kind = "placed"
     /\ caIn.exporter = "simple"
     /\ CategoryFolder(caOut.written) = caOut.written.dir) =>
        /\ caOut.file.dir = caOut.written.dir
        /\ caOut.file.name = to_kebab_case(caIn.title, MaxFilenameLength) \o MdxExt

\* the note of the folder travel got the rule-based category Travel: its
\* document was written into travel, the directory of its category, and the
\* organize pass has run
C28_Witness ==
    /\ caOut.kind = "placed"
    /\ caIn.exporter = "simple"
    /\ caIn.response.kind = "raise"
    /\ caIn.folder = <<"t","r","a","v","e","l">>
    /\ caOut.written.dir = <<"t","r","a","v","e","l">>
    /\ CategoryFolder(caOut.written) = <<"t","r","a","v","e","l">>
    /\ caOut.file.dir = <<"t","r","a","v","e","l">>

\* a document written into another directory than that of its category is
\* moved there under the name it was written with
C28_MovedKeepsName ==
    (/\ caOut.kind = "placed"
     /\ caIn.exporter = "simple"
     /\ CategoryFolder(caOut.written) \notin {None, caOut.written.dir}) =>
        /\ caOut.file.dir = CategoryFolder(caOut.written)
        /\ caOut.file.name = caOut.written.name

\* C25: every way NotesExporter.export returns, with success, with no note
\* found, after an interrupt or after a failure of the connection test, of
\* the acquisition or of the processing, has written the run log before.
C25_EveryReturnWritesLog ==
    (orch = "notes" /\ pc = "done") => artifact.written

\* export of NotesExporter returned the failure of the acquisition and the
\* log holds the error record
C25_Witness ==
    /\ orch = "notes" /\ pc = "done"
    /\ result = "failure" /\ acquisition_failed
    /\ artifact.written /\ artifact.errors = 1

\* every return of NotesExporter.export but the one with no note to work on
\* has written the log, with the counts and the errors of the run
C25_LogUnlessNoNotes ==
    (orch = "notes" /\ pc = "done" /\ notes # <<>>) =>
        /\ artifact.written
        /\ artifact.exported = exported_count
        /\ artifact.errors = Len(errors)

\* the counters of the run statistics of the two exporters
Counters ==
    <<exported_count, image_count, Len(errors), Len(warnings),
      processing_stats.notes_processed, processing_stats.notes_skipped,
      processing_stats.images_extracted, processing_stats.images_failed,
      processing_stats.total_size_bytes>>

\* C21: the run statistics grow monotonically: no step of a run lowers the
\* count of exported documents, of skipped notes, of extracted images, of
\* error records or of the bytes written, and no step removes or changes an
\* error record already kept.
C21_StatisticsMonotone ==
    [][/\ \A k \in 1..Len(Counters) : Counters'[k] >= Counters[k]
       /\ Len(errors') >= Len(errors)
       /\ SubSeq(errors', 1, Len(errors)) = errors]_vars

\* NotesExporter skipped nothing, wrote a document with an image, kept an
\* error for another note and was then interrupted
C21_Witness ==
    /\ orch = "notes" /\ pc = "done" /\ interrupted
    /\ exported_count > 0 /\ image_count > 0
    /\ processing_stats.notes_processed = exported_count
    /\ processing_stats.images_extracted = image_count
    /\ processing_stats.total_size_bytes > 0
    /\ Len(errors) > 0

\* the body of the note is empty or holds white space only
BlankBody(item) == \A k \in 1..Len(item.note.noteBody) : item.note.noteBody[k] \in SpaceSet

\* the notes the loop is through with
Passed == {pnIn.notes[k] : k \in 1..pnOut.i}

HasFile(item) == \E f \in pnOut.files : f.note = item.note.noteID
HasError(item) == \E k \in 1..Len(pnOut.errors) : pnOut.errors[k].note_name = item.note.noteName
HasWarning(item) == \E k \in 1..Len(pnOut.warnings) : pnOut.warnings[k].note_name = item.note.noteName

C26_EveryNoteCountedOnce ==
    pnOut.kind \in {"loop", "returned"} =>
        /\ pnOut.processing_stats.notes_processed + pnOut.processing_stats.notes_skipped
               + Len(pnOut.errors) = pnOut.i
        /\ (pnOut.kind = "returned" => pnOut.i = Len(pnIn.notes))
        /\ pnOut.exported_count = pnOut.processing_stats.notes_processed
        /\ pnOut.exported_count = Cardinality(pnOut.files)
        /\ ~pnIn.include_empty_notes =>
               /\ \A item \in Passed :
                      IF BlankBody(item) THEN ~HasFile(item) /\ ~HasError(item)
                      ELSE HasFile(item) # HasError(item)
               /\ pnOut.processing_stats.notes_skipped
                      = Cardinality({item \in Passed : BlankBody(item)})

\* with include_empty_notes off the loop returned after two notes: the one
\* with a body of white space was skipped, the other was written
C26_Witness ==
    /\ pnOut.kind = "returned"
    /\ ~pnIn.include_empty_notes
    /\ Len(pnIn.notes) = 2
    /\ pnIn.notes[1].note.noteBody = <<" ", "\n", "\t">>
    /\ pnOut.processing_stats.notes_skipped = 1
    /\ pnOut.processing_stats.notes_processed = 1
    /\ pnOut.errors = <<>>
    /\ Cardinality(pnOut.files) = 1

====
